---- MODULE Spec2Model ----
(***************************************************************************)
(* Test data generator (src/test-data-generator.tsx): the field            *)
(* configuration list, the lookup sources of a field, value synthesis,     *)
(* the negative test cases and the record set built from them.             *)
(*                                                                         *)
(* JavaScript values are tagged records; a JavaScript string is a sequence *)
(* of one-character strings, so that length, substring, trim, split and    *)
(* the pattern placeholders are computed character by character.           *)
(***************************************************************************)
EXTENDS Integers, Sequences, FiniteSets, TLC

VARIABLES
  fields,                \* the FieldConfig list of the configuration screen
  recordCount,           \* Number of Records
  includeNegativeTests,  \* Include Additional Negative Tests
  generatedData,         \* the records of the last generation
  filteredData,          \* the records the preview shows
  selectedTestType,      \* the filter of the preview
  sidFile,               \* the Selenium IDE file chosen, if any
  parsedSidData,         \* the tests of the last file parsed
  sidFields,             \* the fields extracted from it
  pendingUploads,        \* CSV uploads whose file read has not completed
  now,                   \* the last reading of Date.now()
  uncaught,              \* the exception the last handler ended with, if any
  ops                    \* handlers run so far

vars == <<fields, recordCount, includeNegativeTests, generatedData, filteredData,
          selectedTestType, sidFile, parsedSidData, sidFields, pendingUploads, now,
          uncaught, ops>>

-----------------------------------------------------------------------------
(* JavaScript values *)

Undefined == [t |-> "undefined"]

Null == [t |-> "null"]

Str(s) == [t |-> "string", s |-> s]

Num(n) == [t |-> "number", n |-> n]

NaN == [t |-> "number", nan |-> TRUE]

NumLit(digits) == [t |-> "number", lit |-> digits]

Bool(b) == [t |-> "boolean", b |-> b]

Arr(a) == [t |-> "array", a |-> a]

TypeOf(v) == IF v.t \in {"null", "array"} THEN "object" ELSE v.t

IsInt(v) == v.t = "number" /\ "n" \in DOMAIN v

Truthy(v) ==
  CASE v.t = "undefined" -> FALSE
    [] v.t = "null" -> FALSE
    [] v.t = "string" -> Len(v.s) > 0
    [] v.t = "number" -> IF "n" \in DOMAIN v THEN v.n # 0 ELSE "lit" \in DOMAIN v
    [] v.t = "boolean" -> v.b
    [] OTHER -> TRUE

\* a || b
OrElse(a, b) == IF Truthy(a) THEN a ELSE b

-----------------------------------------------------------------------------
(* Strings *)

UPPER == <<"A", "B", "C", "D", "E", "F", "G", "H", "I", "J", "K", "L", "M", "N", "O", "P", "Q", "R", "S", "T", "U", "V", "W", "X", "Y", "Z">>

LOWER == <<"a", "b", "c", "d", "e", "f", "g", "h", "i", "j", "k", "l", "m", "n", "o", "p", "q", "r", "s", "t", "u", "v", "w", "x", "y", "z">>

DIGITS == <<"0", "1", "2", "3", "4", "5", "6", "7", "8", "9">>

Range(s) == {s[i] : i \in DOMAIN s}

IndexOf(s, c) == IF c \in Range(s) THEN CHOOSE i \in DOMAIN s : s[i] = c /\ \A j \in 1..(i - 1) : s[j] # c ELSE 0

IsUpper(c) == c \in Range(UPPER)

IsLower(c) == c \in Range(LOWER)

IsDigit(c) == c \in Range(DIGITS)

IsSpace(c) == c \in {" ", "\t", "\n", "\r"}

ToLowerChar(c) == IF IsUpper(c) THEN LOWER[IndexOf(UPPER, c)] ELSE c

ToLowerCase(s) == [i \in DOMAIN s |-> ToLowerChar(s[i])]

Repeat(c, n) == [i \in 1..n |-> c]

Max(a, b) == IF a >= b THEN a ELSE b

Min(a, b) == IF a <= b THEN a ELSE b

\* s.substring(0, n)
Substring0(s, n) == SubSeq(s, 1, Min(Max(n, 0), Len(s)))

RECURSIVE TrimStart(_)
TrimStart(s) == IF Len(s) > 0 /\ IsSpace(s[1]) THEN TrimStart(Tail(s)) ELSE s

RECURSIVE TrimEnd(_)
TrimEnd(s) == IF Len(s) > 0 /\ IsSpace(s[Len(s)]) THEN TrimEnd(SubSeq(s, 1, Len(s) - 1)) ELSE s

Trim(s) == TrimEnd(TrimStart(s))

\* s.split(sep) for a one-character separator
RECURSIVE SplitAt(_, _, _, _)
SplitAt(s, sep, i, cur) ==
  IF i > Len(s) THEN <<cur>>
  ELSE IF s[i] = sep THEN <<cur>> \o SplitAt(s, sep, i + 1, <<>>)
  ELSE SplitAt(s, sep, i + 1, Append(cur, s[i]))

Split(s, sep) == SplitAt(s, sep, 1, <<>>)

RECURSIVE FilterNonBlank(_)
FilterNonBlank(xs) ==
  IF xs = <<>> THEN <<>>
  ELSE IF Len(Trim(Head(xs))) > 0 THEN <<Head(xs)>> \o FilterNonBlank(Tail(xs))
  ELSE FilterNonBlank(Tail(xs))

RECURSIVE Flatten(_)
Flatten(xs) == IF xs = <<>> THEN <<>> ELSE Head(xs) \o Flatten(Tail(xs))

\* decimal digits of a natural number
RECURSIVE NatToString(_)
NatToString(n) == IF n < 10 THEN <<DIGITS[n + 1]>> ELSE NatToString(n \div 10) \o <<DIGITS[(n % 10) + 1]>>

-----------------------------------------------------------------------------
(* FieldConfig *)

EmptyConfig ==
  [staticValue |-> Undefined, rangeMin |-> Undefined, rangeMax |-> Undefined,
   lookupValues |-> Undefined, csvFile |-> Undefined, csvData |-> Undefined,
   csvColumn |-> Undefined, minLength |-> Undefined, maxLength |-> Undefined,
   pattern |-> Undefined]

FieldTypes == {"string", "number", "boolean", "date", "email", "phone"}

DataTypes == {"static", "range", "lookup", "minmax", "pattern"}

NewField(id) ==
  [id |-> id, name |-> <<>>, type |-> "string", dataType |-> "static", required |-> FALSE,
   maxFieldLength |-> Undefined, generateNegativeTests |-> Undefined, config |-> EmptyConfig]

\* shouldAutoEnableNegativeTests testing the range bounds for truthiness
shouldAutoEnableNegativeTests_TruthyBounds(field) ==
  IF field.required THEN TRUE
  ELSE IF Truthy(field.maxFieldLength) \/ Truthy(field.config.rangeMin) \/ Truthy(field.config.rangeMax) THEN TRUE
  ELSE IF field.type \in {"email", "phone", "date"} THEN TRUE
  ELSE FALSE

shouldAutoEnableNegativeTests(field) ==
  IF field.required THEN TRUE
  ELSE IF Truthy(field.maxFieldLength) \/ field.config.rangeMin # Undefined \/ field.config.rangeMax # Undefined THEN TRUE
  ELSE IF field.type \in {"email", "phone", "date"} THEN TRUE
  ELSE FALSE

-----------------------------------------------------------------------------
(* Math.random(): a draw is Random/RandDen in [0, 1).  A seed fixes the     *)
(* sequence of draws of one handler run: draw k is taken from RandNums,     *)
(* starting at seed.a and advancing by seed.b.                              *)

RandDen == 1000

RandNums == <<0, 999, 500, 123>>

Seeds == [a : 0..(Len(RandNums) - 1), b : {1}]

Random(seed, k) == RandNums[((seed.a + seed.b * k) % Len(RandNums)) + 1]

\* Math.floor(Math.random() * n)
FloorMul(r, n) == (r * n) \div RandDen

-----------------------------------------------------------------------------
(* Lookup Value Resolver *)

\* field.config.csvData[0] of an empty grid is undefined: .indexOf throws a TypeError
getLookupValuesThrows(field) ==
  /\ Truthy(field.config.csvData)
  /\ Truthy(field.config.csvColumn)
  /\ Len(field.config.csvData.a) = 0

CsvColumnCells(rows, columnIndex) ==
  [i \in 1..(Len(rows) - 1) |->
     IF columnIndex <= Len(rows[i + 1]) THEN OrElse(Str(rows[i + 1][columnIndex]), Str(<<>>)).s ELSE <<>>]

getLookupValues(field) ==
  LET manual == FilterNonBlank(OrElse(field.config.lookupValues, Arr(<<>>)).a) IN
  IF Truthy(field.config.csvData) /\ Truthy(field.config.csvColumn)
  THEN LET columnIndex == IndexOf(field.config.csvData.a[1], field.config.csvColumn.s) IN
       IF columnIndex >= 1
       THEN FilterNonBlank(CsvColumnCells(field.config.csvData.a, columnIndex))
       ELSE manual
  ELSE manual

-----------------------------------------------------------------------------
(* Pattern Compiler/Expander *)

BASE36 == <<"0", "1", "2", "3", "4", "5", "6", "7", "8", "9", "a", "b", "c", "d", "e", "f", "g", "h", "i", "j", "k", "l", "m", "n", "o", "p", "q", "r", "s", "t", "u", "v", "w", "x", "y", "z">>

\* the digits of r/RandDen after "0." in base 36, at most n of them
RECURSIVE Base36Fraction(_, _)
Base36Fraction(x, n) ==
  IF n = 0 \/ x = 0 THEN <<>>
  ELSE <<BASE36[((x * 36) \div RandDen) + 1]>> \o Base36Fraction((x * 36) % RandDen, n - 1)

\* Math.random().toString(36).substring(2, 8)
RandomToken(r) == Base36Fraction(r, 6)

PlaceholderUPPER == <<"{", "U", "P", "P", "E", "R", "}">>

PlaceholderLower == <<"{", "l", "o", "w", "e", "r", "}">>

PlaceholderDigit == <<"{", "d", "i", "g", "i", "t", "}">>

PlaceholderRandom == <<"{", "r", "a", "n", "d", "o", "m", "}">>

Expansion(token, r) ==
  CASE token = PlaceholderUPPER -> <<UPPER[FloorMul(r, 26) + 1]>>
    [] token = PlaceholderLower -> <<LOWER[FloorMul(r, 26) + 1]>>
    [] token = PlaceholderDigit -> NatToString(FloorMul(r, 10))
    [] OTHER -> RandomToken(r)

\* result.replace(/token/g, () => ...): one left-to-right pass, one draw per match
RECURSIVE ReplaceAll(_, _, _, _, _)
ReplaceAll(s, i, token, seed, k) ==
  IF i > Len(s) THEN <<>>
  ELSE IF i + Len(token) - 1 <= Len(s) /\ SubSeq(s, i, i + Len(token) - 1) = token
       THEN Expansion(token, Random(seed, k)) \o ReplaceAll(s, i + Len(token), token, seed, k + 1)
       ELSE <<s[i]>> \o ReplaceAll(s, i + 1, token, seed, k)

generateFromPattern(pattern, fieldType, seed, k) ==
  LET r1 == ReplaceAll(pattern, 1, PlaceholderUPPER, seed, k)
      r2 == ReplaceAll(r1, 1, PlaceholderLower, seed, k + 1)
      r3 == ReplaceAll(r2, 1, PlaceholderDigit, seed, k + 2)
      r4 == ReplaceAll(r3, 1, PlaceholderRandom, seed, k + 3)
  IN IF fieldType = "phone" THEN ReplaceAll(r4, 1, PlaceholderDigit, seed, k + 4) ELSE r4

\* the pattern of a sample with every letter taken for a lower-case one
generatePasswordPattern_AnyCase(password) ==
  Flatten([i \in DOMAIN password |->
     IF IsUpper(password[i]) \/ IsLower(password[i]) THEN PlaceholderLower
     ELSE IF IsDigit(password[i]) THEN PlaceholderDigit
     ELSE <<password[i]>>])

generatePasswordPattern(password) ==
  Flatten([i \in DOMAIN password |->
     IF IsUpper(password[i]) THEN PlaceholderUPPER
     ELSE IF IsLower(password[i]) THEN PlaceholderLower
     ELSE IF IsDigit(password[i]) THEN PlaceholderDigit
     ELSE <<password[i]>>])

generatePhonePattern(phone) ==
  Flatten([i \in DOMAIN phone |-> IF IsDigit(phone[i]) THEN PlaceholderDigit ELSE <<phone[i]>>])

-----------------------------------------------------------------------------
(* Negative Test-Case Generator *)

\* the kinds with the range bounds tested for truthiness
getNegativeTestTypes_TruthyBounds(field) ==
  (IF field.required THEN <<<<"e", "m", "p", "t", "y">>, <<"n", "u", "l", "l">>>> ELSE <<>>)
  \o (CASE field.type = "string" ->
             <<<<"t", "o", "o", "_", "l", "o", "n", "g">>, <<"s", "p", "e", "c", "i", "a", "l", "_", "c", "h", "a", "r", "s">>, <<"s", "q", "l", "_", "i", "n", "j", "e", "c", "t", "i", "o", "n">>>>
             \o (IF Truthy(field.maxFieldLength) THEN <<<<"e", "x", "c", "e", "e", "d", "_", "l", "e", "n", "g", "t", "h">>>> ELSE <<>>)
        [] field.type = "email" -> <<<<"i", "n", "v", "a", "l", "i", "d", "_", "f", "o", "r", "m", "a", "t">>, <<"m", "i", "s", "s", "i", "n", "g", "_", "a", "t">>, <<"m", "i", "s", "s", "i", "n", "g", "_", "d", "o", "m", "a", "i", "n">>>>
        [] field.type = "phone" -> <<<<"i", "n", "v", "a", "l", "i", "d", "_", "f", "o", "r", "m", "a", "t">>, <<"t", "o", "o", "_", "s", "h", "o", "r", "t">>, <<"t", "o", "o", "_", "l", "o", "n", "g">>, <<"l", "e", "t", "t", "e", "r", "s">>>>
        [] field.type = "number" ->
             <<<<"s", "t", "r", "i", "n", "g", "_", "v", "a", "l", "u", "e">>, <<"n", "e", "g", "a", "t", "i", "v", "e">>, <<"d", "e", "c", "i", "m", "a", "l">>, <<"o", "v", "e", "r", "f", "l", "o", "w">>>>
             \o (IF Truthy(field.config.rangeMin) THEN <<<<"b", "e", "l", "o", "w", "_", "m", "i", "n">>>> ELSE <<>>)
             \o (IF Truthy(field.config.rangeMax) THEN <<<<"a", "b", "o", "v", "e", "_", "m", "a", "x">>>> ELSE <<>>)
        [] field.type = "date" -> <<<<"i", "n", "v", "a", "l", "i", "d", "_", "f", "o", "r", "m", "a", "t">>, <<"f", "u", "t", "u", "r", "e", "_", "d", "a", "t", "e">>, <<"p", "a", "s", "t", "_", "d", "a", "t", "e">>, <<"i", "n", "v", "a", "l", "i", "d", "_", "d", "a", "y">>>>
        [] field.type = "boolean" -> <<<<"s", "t", "r", "i", "n", "g", "_", "v", "a", "l", "u", "e">>, <<"n", "u", "m", "b", "e", "r", "_", "v", "a", "l", "u", "e">>>>
        [] OTHER -> <<>>)

getNegativeTestTypes(field) ==
  (IF field.required THEN <<<<"e", "m", "p", "t", "y">>, <<"n", "u", "l", "l">>>> ELSE <<>>)
  \o (CASE field.type = "string" ->
             <<<<"t", "o", "o", "_", "l", "o", "n", "g">>, <<"s", "p", "e", "c", "i", "a", "l", "_", "c", "h", "a", "r", "s">>, <<"s", "q", "l", "_", "i", "n", "j", "e", "c", "t", "i", "o", "n">>>>
             \o (IF Truthy(field.maxFieldLength) THEN <<<<"e", "x", "c", "e", "e", "d", "_", "l", "e", "n", "g", "t", "h">>>> ELSE <<>>)
        [] field.type = "email" -> <<<<"i", "n", "v", "a", "l", "i", "d", "_", "f", "o", "r", "m", "a", "t">>, <<"m", "i", "s", "s", "i", "n", "g", "_", "a", "t">>, <<"m", "i", "s", "s", "i", "n", "g", "_", "d", "o", "m", "a", "i", "n">>>>
        [] field.type = "phone" -> <<<<"i", "n", "v", "a", "l", "i", "d", "_", "f", "o", "r", "m", "a", "t">>, <<"t", "o", "o", "_", "s", "h", "o", "r", "t">>, <<"t", "o", "o", "_", "l", "o", "n", "g">>, <<"l", "e", "t", "t", "e", "r", "s">>>>
        [] field.type = "number" ->
             <<<<"s", "t", "r", "i", "n", "g", "_", "v", "a", "l", "u", "e">>, <<"n", "e", "g", "a", "t", "i", "v", "e">>, <<"d", "e", "c", "i", "m", "a", "l">>, <<"o", "v", "e", "r", "f", "l", "o", "w">>>>
             \o (IF field.config.rangeMin # Undefined THEN <<<<"b", "e", "l", "o", "w", "_", "m", "i", "n">>>> ELSE <<>>)
             \o (IF field.config.rangeMax # Undefined THEN <<<<"a", "b", "o", "v", "e", "_", "m", "a", "x">>>> ELSE <<>>)
        [] field.type = "date" -> <<<<"i", "n", "v", "a", "l", "i", "d", "_", "f", "o", "r", "m", "a", "t">>, <<"f", "u", "t", "u", "r", "e", "_", "d", "a", "t", "e">>, <<"p", "a", "s", "t", "_", "d", "a", "t", "e">>, <<"i", "n", "v", "a", "l", "i", "d", "_", "d", "a", "y">>>>
        [] field.type = "boolean" -> <<<<"s", "t", "r", "i", "n", "g", "_", "v", "a", "l", "u", "e">>, <<"n", "u", "m", "b", "e", "r", "_", "v", "a", "l", "u", "e">>>>
        [] OTHER -> <<>>)

TooLongLength == 1000

DefaultExceedBase == 50

ExceedBy == 10

DefaultRangeMin == 0

DefaultRangeMax == 100

DefaultMinLength == 1

DefaultMaxLength == 10

FallbackLength == 5

\* "A".repeat(count) throws a RangeError for a negative count
generateNegativeValueThrows(field, testType) ==
  /\ testType = <<"e", "x", "c", "e", "e", "d", "_", "l", "e", "n", "g", "t", "h">>
  /\ OrElse(field.maxFieldLength, Num(DefaultExceedBase)).n + ExceedBy < 0

generateNegativeValue(field, testType) ==
  CASE testType = <<"e", "m", "p", "t", "y">> -> Str(<<>>)
    [] testType = <<"n", "u", "l", "l">> -> Null
    [] testType = <<"t", "o", "o", "_", "l", "o", "n", "g">> -> Str(Repeat("A", TooLongLength))
    [] testType = <<"e", "x", "c", "e", "e", "d", "_", "l", "e", "n", "g", "t", "h">> ->
         Str(Repeat("A", OrElse(field.maxFieldLength, Num(DefaultExceedBase)).n + ExceedBy))
    [] testType = <<"s", "p", "e", "c", "i", "a", "l", "_", "c", "h", "a", "r", "s">> -> Str(<<"!", "@", "#", "$", "%", "^", "&", "*", "(", ")", "_", "+", "{", "}", "|", ":", "<", ">", "?", "[", "]", "\\", ";", "'", "\"", ",", ".", "/">>)
    [] testType = <<"s", "q", "l", "_", "i", "n", "j", "e", "c", "t", "i", "o", "n">> -> Str(<<"'", ";", " ", "D", "R", "O", "P", " ", "T", "A", "B", "L", "E", " ", "u", "s", "e", "r", "s", ";", " ", "-", "-">>)
    [] testType = <<"i", "n", "v", "a", "l", "i", "d", "_", "f", "o", "r", "m", "a", "t">> ->
         IF field.type = "email" THEN Str(<<"i", "n", "v", "a", "l", "i", "d", "-", "e", "m", "a", "i", "l", "-", "f", "o", "r", "m", "a", "t">>)
         ELSE IF field.type = "phone" THEN Str(<<"a", "b", "c", "-", "d", "e", "f", "-", "g", "h", "i", "j">>)
         ELSE IF field.type = "date" THEN Str(<<"2", "0", "2", "4", "-", "1", "3", "-", "4", "5">>)
         ELSE Str(<<"i", "n", "v", "a", "l", "i", "d", "_", "f", "o", "r", "m", "a", "t">>)
    [] testType = <<"m", "i", "s", "s", "i", "n", "g", "_", "a", "t">> -> Str(<<"e", "m", "a", "i", "l", "w", "i", "t", "h", "o", "u", "t", "a", "t", "s", "i", "g", "n", ".", "c", "o", "m">>)
    [] testType = <<"m", "i", "s", "s", "i", "n", "g", "_", "d", "o", "m", "a", "i", "n">> -> Str(<<"e", "m", "a", "i", "l", "@">>)
    [] testType = <<"t", "o", "o", "_", "s", "h", "o", "r", "t">> -> Str(<<"1", "2", "3">>)
    [] testType = <<"l", "e", "t", "t", "e", "r", "s">> -> Str(<<"a", "b", "c", "d", "e", "f", "g", "h", "i", "j">>)
    [] testType = <<"s", "t", "r", "i", "n", "g", "_", "v", "a", "l", "u", "e">> -> Str(<<"n", "o", "t", "_", "a", "_", "n", "u", "m", "b", "e", "r">>)
    [] testType = <<"n", "e", "g", "a", "t", "i", "v", "e">> -> Num(-999999)
    [] testType = <<"d", "e", "c", "i", "m", "a", "l">> -> NumLit(<<"1", "2", "3", ".", "4", "5", "6">>)
    [] testType = <<"o", "v", "e", "r", "f", "l", "o", "w">> -> NumLit(<<"9", "9", "9", "9", "9", "9", "9", "9", "9", "9", "9", "9", "9", "9", "9", "9", "9", "9", "9", "9", "9">>)
    [] testType = <<"b", "e", "l", "o", "w", "_", "m", "i", "n">> -> Num(OrElse(field.config.rangeMin, Num(DefaultRangeMin)).n - 1)
    [] testType = <<"a", "b", "o", "v", "e", "_", "m", "a", "x">> -> Num(OrElse(field.config.rangeMax, Num(DefaultRangeMax)).n + 1)
    [] testType = <<"f", "u", "t", "u", "r", "e", "_", "d", "a", "t", "e">> -> Str(<<"2", "0", "9", "9", "-", "1", "2", "-", "3", "1">>)
    [] testType = <<"p", "a", "s", "t", "_", "d", "a", "t", "e">> -> Str(<<"1", "9", "0", "0", "-", "0", "1", "-", "0", "1">>)
    [] testType = <<"i", "n", "v", "a", "l", "i", "d", "_", "d", "a", "y">> -> Str(<<"2", "0", "2", "4", "-", "0", "2", "-", "3", "0">>)
    [] testType = <<"n", "u", "m", "b", "e", "r", "_", "v", "a", "l", "u", "e">> -> Num(123)
    [] OTHER -> Str(<<"i", "n", "v", "a", "l", "i", "d", "_", "t", "e", "s", "t", "_", "v", "a", "l", "u", "e">>)

-----------------------------------------------------------------------------
(* Value Synthesis Engine *)

CHARS == UPPER \o LOWER \o DIGITS

TwoDigits(n) == <<DIGITS[(n \div 10) + 1], DIGITS[(n % 10) + 1]>>

SixDigits(n) == TwoDigits(n \div 10000) \o TwoDigits((n \div 100) % 100) \o TwoDigits(n % 100)

\* `+1${Math.floor(Math.random() * 9000000000) + 1000000000}`, computed in two halves
PhoneNumber(r) ==
  <<"+", "1">> \o NatToString(((r * 9000) \div RandDen) + 1000)
        \o SixDigits((((r * 9000) % RandDen) * 1000000) \div RandDen)

MonthDays == <<31, 28, 31, 30, 31, 30, 31, 31, 30, 31, 30, 31>>

RECURSIVE MonthOf(_, _)
MonthOf(dayOfYear, m) == IF dayOfYear <= MonthDays[m] THEN <<m, dayOfYear>> ELSE MonthOf(dayOfYear - MonthDays[m], m + 1)

\* new Date(Date.now() - Math.random() * 365 days).toISOString().split("T")[0],
\* the clock standing at the end of 2025-12-31
RandomDate(r) ==
  LET daysBack == FloorMul(r, 365)
      md == MonthOf(365 - daysBack, 1)
  IN IF daysBack >= 365 THEN <<"2", "0", "2", "4", "-", "1", "2", "-", "3", "1">>
     ELSE <<"2", "0", "2", "5", "-">> \o TwoDigits(md[1]) \o <<"-">> \o TwoDigits(md[2])

generateRandomString(length, type, seed, k) ==
  LET result == [i \in 1..length |-> CHARS[FloorMul(Random(seed, k + i - 1), Len(CHARS)) + 1]]
      r == Random(seed, k + Max(length, 0))
  IN CASE type = "email" -> Str(ToLowerCase(result) \o <<"@", "e", "x", "a", "m", "p", "l", "e", ".", "c", "o", "m">>)
       [] type = "phone" -> Str(PhoneNumber(r))
       [] type = "number" -> Num(FloorMul(r, 1000))
       [] type = "boolean" -> Bool(2 * r > RandDen)
       [] type = "date" -> Str(RandomDate(r))
       [] OTHER -> Str(result)

\* Math.floor(Math.random() * (max - min + 1)) + min
RangeDraw(min, max, r) == FloorMul(r, max - min + 1) + min

\* the length draw over one value too many
LengthDraw_OneMore(minLen, maxLen, r) == FloorMul(r, maxLen - minLen + 2) + minLen

\* Math.floor(Math.random() * (maxLen - minLen + 1)) + minLen
LengthDraw(minLen, maxLen, r) == FloorMul(r, maxLen - minLen + 1) + minLen

\* the value of generateFieldValue before the maxFieldLength step
SynthesizedValue(field, seed, k) ==
  CASE field.dataType = "static" -> OrElse(field.config.staticValue, Str(<<>>))
    [] field.dataType = "range" ->
         LET min == OrElse(field.config.rangeMin, Num(DefaultRangeMin)).n
             max == OrElse(field.config.rangeMax, Num(DefaultRangeMax)).n
         IN Num(RangeDraw(min, max, Random(seed, k)))
    [] field.dataType = "lookup" ->
         LET values == getLookupValues(field)
         IN Str(values[FloorMul(Random(seed, k), Len(values)) + 1])
    [] field.dataType = "minmax" ->
         LET minLen == OrElse(field.config.minLength, Num(DefaultMinLength)).n
             maxLen == OrElse(field.config.maxLength, Num(DefaultMaxLength)).n
             length == LengthDraw(minLen, maxLen, Random(seed, k))
         IN generateRandomString(length, field.type, seed, k + 1)
    [] field.dataType = "pattern" ->
         Str(generateFromPattern(OrElse(field.config.pattern, Str(<<>>)).s, field.type, seed, k))
    [] OTHER -> generateRandomString(FallbackLength, field.type, seed, k)

\* the maxFieldLength step of generateFieldValue
ApplyFieldLengthLimit(field, value) ==
  IF Truthy(field.maxFieldLength) /\ TypeOf(value) = "string"
  THEN Str(Substring0(value.s, field.maxFieldLength.n))
  ELSE value

generateFieldValue(field, seed, k) ==
  IF Len(field.name) = 0 THEN Str(<<>>)
  ELSE IF field.dataType = "lookup" /\ Len(getLookupValues(field)) = 0 THEN Str(<<>>)
  ELSE ApplyFieldLengthLimit(field, SynthesizedValue(field, seed, k))

-----------------------------------------------------------------------------
(* Record Set Builder *)

KeyTestType == <<"_", "t", "e", "s", "t", "T", "y", "p", "e">>

KeyTargetField == <<"_", "t", "a", "r", "g", "e", "t", "F", "i", "e", "l", "d">>

KeyAutoSelected == <<"_", "a", "u", "t", "o", "S", "e", "l", "e", "c", "t", "e", "d">>

\* record[key] = value
Assign(record, key, value) ==
  [x \in (DOMAIN record) \cup {key} |-> IF x = key THEN value ELSE record[x]]

\* the draws of one generateFieldValue call start at a place of their own
DrawIndex(recordIndex, fieldIndex) == 3 * recordIndex + fieldIndex

IsLookupWithValues(f) == f.dataType = "lookup" /\ Len(getLookupValues(f)) > 0

LookupFields(fs) == {j \in DOMAIN fs : IsLookupWithValues(fs[j])}

MaxOf(S) == CHOOSE x \in S : \A y \in S : y <= x

\* a positive record whose lookup fields draw their value at random
RECURSIVE PositiveRecord_DrawsLookup(_, _, _, _, _, _)
PositiveRecord_DrawsLookup(record, fs, j, i, perLookupValue, seed) ==
  IF j > Len(fs) THEN record
  ELSE IF Len(fs[j].name) = 0
       THEN PositiveRecord_DrawsLookup(record, fs, j + 1, i, perLookupValue, seed)
  ELSE LET field == fs[j]
           value == generateFieldValue(field, seed, DrawIndex(i, j))
       IN PositiveRecord_DrawsLookup(Assign(record, field.name, value), fs, j + 1, i,
                                     perLookupValue, seed)

\* fields.forEach of a positive record, from field j on
RECURSIVE PositiveRecord(_, _, _, _, _, _)
PositiveRecord(record, fs, j, i, perLookupValue, seed) ==
  IF j > Len(fs) THEN record
  ELSE IF Len(fs[j].name) = 0 THEN PositiveRecord(record, fs, j + 1, i, perLookupValue, seed)
  ELSE LET field == fs[j]
           lookupValues == getLookupValues(field)
           value == IF perLookupValue /\ field.dataType = "lookup"
                    THEN IF Len(lookupValues) > 0
                         THEN Str(lookupValues[(i % Len(lookupValues)) + 1])
                         ELSE Str(<<>>)
                    ELSE generateFieldValue(field, seed, DrawIndex(i, j))
       IN PositiveRecord(Assign(record, field.name, value), fs, j + 1, i, perLookupValue, seed)

\* recordCount records whatever the lookup lists hold
PositiveCount_Always(fs, count) == count

\* never fewer than recordCount records
PositiveCount_AtLeastCount(fs, count) ==
  IF LookupFields(fs) # {}
  THEN Max(MaxOf({Len(getLookupValues(fs[j])) : j \in LookupFields(fs)}), count)
  ELSE count

PositiveCount(fs, count) ==
  IF LookupFields(fs) # {}
  THEN Min(MaxOf({Len(getLookupValues(fs[j])) : j \in LookupFields(fs)}), count)
  ELSE count

PositiveRecords(fs, count, seed) ==
  [n \in 1..PositiveCount(fs, count) |->
     PositiveRecord([x \in {KeyTestType} |-> Str(<<"p", "o", "s", "i", "t", "i", "v", "e">>)], fs, 1, n - 1, LookupFields(fs) # {}, seed)]

\* the negative-test filter without its name test
IsNegativeTestField_Nameless(f) ==
  Truthy(f.generateNegativeTests) \/ shouldAutoEnableNegativeTests(f)

IsNegativeTestField(f) ==
  (Truthy(f.generateNegativeTests) \/ shouldAutoEnableNegativeTests(f)) /\ Len(f.name) > 0

\* fields.filter(...) as the indices kept, in order
RECURSIVE NegativeTestFields(_, _)
NegativeTestFields(fs, j) ==
  IF j > Len(fs) THEN <<>>
  ELSE (IF IsNegativeTestField(fs[j]) THEN <<j>> ELSE <<>>) \o NegativeTestFields(fs, j + 1)

\* fields.forEach of a negative record, from field j on
RECURSIVE NegativeRecord(_, _, _, _, _, _, _)
NegativeRecord(record, fs, j, targetField, testType, i, seed) ==
  IF j > Len(fs) THEN record
  ELSE IF Len(fs[j].name) = 0 THEN NegativeRecord(record, fs, j + 1, targetField, testType, i, seed)
  ELSE LET field == fs[j]
           value == IF field.id = targetField.id
                    THEN generateNegativeValue(field, testType)
                    ELSE generateFieldValue(field, seed, DrawIndex(i, j))
       IN NegativeRecord(Assign(record, field.name, value), fs, j + 1, targetField, testType, i, seed)

NegativeHeader(targetField, testType) ==
  [x \in {KeyTestType, KeyTargetField, KeyAutoSelected} |->
     IF x = KeyTestType THEN Str(<<"n", "e", "g", "a", "t", "i", "v", "e", "_">> \o testType)
     ELSE IF x = KeyTargetField THEN Str(targetField.name)
     ELSE Bool(shouldAutoEnableNegativeTests(targetField))]

\* the negative records of the targets from position p of the filtered list on;
\* i is the number of records already in data
RECURSIVE NegativeRecords(_, _, _, _, _)
NegativeRecords(fs, targets, p, i, seed) ==
  IF p > Len(targets) THEN <<>>
  ELSE LET targetField == fs[targets[p]]
           negativeTestTypes == getNegativeTestTypes(targetField)
           mine == [q \in DOMAIN negativeTestTypes |->
                      NegativeRecord(NegativeHeader(targetField, negativeTestTypes[q]), fs, 1,
                                     targetField, negativeTestTypes[q], i + q - 1, seed)]
       IN mine \o NegativeRecords(fs, targets, p + 1, i + Len(mine), seed)

shouldIncludeNegativeTests(fs, include) ==
  include \/ \E j \in DOMAIN fs : shouldAutoEnableNegativeTests(fs[j])

\* a negative record of the run calls generateNegativeValue with a count
\* that makes it throw
negativeRecordsThrow(fs, include) ==
  /\ shouldIncludeNegativeTests(fs, include)
  /\ \E j \in DOMAIN fs :
       /\ IsNegativeTestField(fs[j])
       /\ \E q \in DOMAIN getNegativeTestTypes(fs[j]) : \E h \in DOMAIN fs :
            /\ Len(fs[h].name) > 0
            /\ fs[h].id = fs[j].id
            /\ generateNegativeValueThrows(fs[h], getNegativeTestTypes(fs[j])[q])

generateTestDataThrows(fs) ==
  \E j \in DOMAIN fs : fs[j].dataType = "lookup" /\ getLookupValuesThrows(fs[j])

\* the array data that generateTestData hands to setGeneratedData and setFilteredData
generateTestDataResult(fs, count, include, seed) ==
  LET positive == PositiveRecords(fs, count, seed)
  IN IF shouldIncludeNegativeTests(fs, include)
     THEN positive \o NegativeRecords(fs, NegativeTestFields(fs, 1), 1, Len(positive), seed)
     ELSE positive


-----------------------------------------------------------------------------
(* CSV export *)

\* String(value) of a truthy record value, as Array.prototype.join renders it
StringOf(value) ==
  CASE value.t = "string" -> value.s
    [] value.t = "boolean" -> <<"t", "r", "u", "e">>
    [] value.t = "number" /\ "lit" \in DOMAIN value ->
         IF value.lit = <<"9", "9", "9", "9", "9", "9", "9", "9", "9", "9", "9", "9", "9", "9", "9", "9", "9", "9", "9", "9", "9">> THEN <<"1", "e", "+", "2", "1">> ELSE value.lit
    [] value.t = "number" /\ "n" \in DOMAIN value ->
         IF value.n < 0 THEN <<"-">> \o NatToString(-value.n) ELSE NatToString(value.n)
    [] OTHER -> <<>>

\* record[key] || ""
CellOf(record, key) ==
  IF key \in DOMAIN record /\ Truthy(record[key]) THEN StringOf(record[key]) ELSE <<>>

\* cells.join(",")
RECURSIVE JoinCells(_)
JoinCells(cells) ==
  IF cells = <<>> THEN <<>>
  ELSE IF Len(cells) = 1 THEN cells[1]
  ELSE cells[1] \o <<",">> \o JoinCells(Tail(cells))

\* the header row of exportData("csv")
exportCsvHeaders(fs) ==
  JoinCells(<<KeyTestType, KeyTargetField>> \o [j \in DOMAIN fs |-> fs[j].name])

\* the row of one record
exportCsvRow(fs, record) ==
  JoinCells(<<CellOf(record, KeyTestType), CellOf(record, KeyTargetField)>>
            \o [j \in DOMAIN fs |-> CellOf(record, fs[j].name)])
-----------------------------------------------------------------------------
(* Field Inference Engine *)

\* label.toLowerCase().replace(/\s+/g, "_"): s from position i on, inRun telling
\* whether the character before was whitespace
RECURSIVE ReplaceWhitespaceRuns(_, _, _)
ReplaceWhitespaceRuns(s, i, inRun) ==
  IF i > Len(s) THEN <<>>
  ELSE IF IsSpace(s[i])
       THEN (IF inRun THEN <<>> ELSE <<"_">>) \o ReplaceWhitespaceRuns(s, i + 1, TRUE)
       ELSE <<s[i]>> \o ReplaceWhitespaceRuns(s, i + 1, FALSE)

FieldNameOf(label) == ReplaceWhitespaceRuns(ToLowerCase(label), 1, FALSE)

\* /^\d+$/.test(s)
IsAllDigits(s) == Len(s) > 0 /\ \A i \in DOMAIN s : IsDigit(s[i])

\* s.replace(/\D/g, "")
RECURSIVE DigitsOnly(_)
DigitsOnly(s) ==
  IF s = <<>> THEN <<>>
  ELSE (IF IsDigit(Head(s)) THEN <<Head(s)>> ELSE <<>>) \o DigitsOnly(Tail(s))

\* Number.parseInt of a string of digits
RECURSIVE ParseDigits(_)
ParseDigits(s) ==
  IF s = <<>> THEN 0
  ELSE 10 * ParseDigits(SubSeq(s, 1, Len(s) - 1)) + (IndexOf(DIGITS, s[Len(s)]) - 1)

NumericRangeMinLength == 6

NumericRangeSpread == 1000000

PhoneMinDigits == 10

LengthSlack == 2

\* the branch of the if / else if chain a command takes, counted from 1
MatchingRule(command) ==
  IF command.command = "password" THEN 1
  ELSE IF IsAllDigits(command.value.s) THEN 2
  ELSE IF "@" \in Range(command.value.s) THEN 3
  ELSE IF Len(DigitsOnly(command.value.s)) >= PhoneMinDigits THEN 4
  ELSE 5

\* type, strategy and config a command's value is given
InferredShape(command) ==
  LET value == command.value.s
      rule == MatchingRule(command)
  IN CASE rule = 1 ->
            [type |-> "string", dataType |-> "pattern",
             config |-> [EmptyConfig EXCEPT !.pattern = Str(generatePasswordPattern(value))]]
       [] rule = 2 ->
            IF Len(value) >= NumericRangeMinLength
            THEN [type |-> "number", dataType |-> "range",
                  config |-> [EmptyConfig EXCEPT
                                !.rangeMin = Num(Max(1, ParseDigits(value) - NumericRangeSpread)),
                                !.rangeMax = Num(ParseDigits(value) + NumericRangeSpread)]]
            ELSE [type |-> "number", dataType |-> "static",
                  config |-> [EmptyConfig EXCEPT !.staticValue = Str(value)]]
       [] rule = 3 ->
            [type |-> "email", dataType |-> "pattern",
             config |-> [EmptyConfig EXCEPT
                           !.pattern = Str(PlaceholderRandom \o <<"@">> \o Split(value, "@")[2])]]
       [] rule = 4 ->
            [type |-> "phone", dataType |-> "pattern",
             config |-> [EmptyConfig EXCEPT !.pattern = Str(generatePhonePattern(value))]]
       [] OTHER ->
            [type |-> "string", dataType |-> "minmax",
             config |-> [EmptyConfig EXCEPT !.minLength = Num(Max(1, Len(value) - LengthSlack)),
                                            !.maxLength = Num(Len(value) + LengthSlack)]]

\* command.label && command.value && (command is "type" or "password")
IsDataCommand(command) ==
  /\ Truthy(command.label)
  /\ Truthy(command.value)
  /\ command.command \in {"type", "password"}

\* sidData.tests.forEach(test => test.commands.forEach(...)): the commands in
\* the order they are visited
AllCommands(tests) == Flatten(tests)

\* a lookup that finds no field of the name
ExistingField_Never(extractedFields, fieldName) == FALSE

\* extractedFields.find((f) => f.name === fieldName), as found or not
ExistingField(extractedFields, fieldName) ==
  \E j \in DOMAIN extractedFields : extractedFields[j].name = fieldName

\* the forEach body from command i on; extractedFields is the list so far, t
\* the reading of Date.now()
RECURSIVE ExtractFields(_, _, _, _, _)
ExtractFields(commands, i, extractedFields, t, seed) ==
  IF i > Len(commands) THEN extractedFields
  ELSE IF ~IsDataCommand(commands[i]) THEN ExtractFields(commands, i + 1, extractedFields, t, seed)
  ELSE LET fieldName == FieldNameOf(commands[i].label.s)
           shape == InferredShape(commands[i])
           existingField == ExistingField(extractedFields, fieldName)
           field == [id |-> <<t, Random(seed, Len(extractedFields))>>, name |-> fieldName,
                     type |-> shape.type, dataType |-> shape.dataType, required |-> TRUE,
                     maxFieldLength |-> Undefined, generateNegativeTests |-> Undefined,
                     config |-> shape.config]
       IN ExtractFields(commands, i + 1,
                        IF existingField THEN extractedFields ELSE Append(extractedFields, field),
                        t, seed)

\* the dataFields of the command analysis panel
dataFields(commands) == SelectSeq(commands, IsDataCommand)

-----------------------------------------------------------------------------
(* Bounds of the model *)

\* recordCount ranges over 1..MaxRecordCount
MaxRecordCount == 2

\* the numeric range bounds tried are -SampleBound, 0 and SampleBound
SampleBound == 2

\* the lengths tried for minLength, maxLength and maxFieldLength
SampleLength == 2

-----------------------------------------------------------------------------
(* Field lists the configuration screen can hold when generation starts *)

ConfigChoices(dataType) ==
  CASE dataType = "static" ->
         {EmptyConfig, [EmptyConfig EXCEPT !.staticValue = Str(<<"a", "b", "c", "d">>)]}
    [] dataType = "range" ->
         {[EmptyConfig EXCEPT !.rangeMin = lo, !.rangeMax = hi] :
            lo \in {Undefined, Num(-SampleBound), Num(0)},
            hi \in {Undefined, Num(0), Num(SampleBound)}}
         \cup {[EmptyConfig EXCEPT !.rangeMin = Num(SampleBound), !.rangeMax = Num(-SampleBound)]}
    [] dataType = "lookup" ->
         {EmptyConfig,
          [EmptyConfig EXCEPT !.lookupValues = Arr(<<<<"a", "b", "c">>, <<"x">>, <<"y", "z">>>>)],
          [EmptyConfig EXCEPT !.csvData = Arr(<<<<<<"h", "1">>, <<"h", "2">>>>, <<<<"p">>, <<"q">>>>, <<<<>>, <<"r", "s", "t">>>>>>),
                              !.csvColumn = Str(<<"h", "2">>)],
          [EmptyConfig EXCEPT !.csvData = Arr(<<<<<<"h", "1">>, <<"h", "2">>>>, <<<<"p">>, <<"q">>>>, <<<<>>, <<"r", "s", "t">>>>>>),
                              !.csvColumn = Str(<<"h", "1">>)],
          [EmptyConfig EXCEPT !.csvData = Arr(<<>>), !.csvColumn = Str(<<"h", "1">>)]}
    [] dataType = "minmax" ->
         {[EmptyConfig EXCEPT !.minLength = lo, !.maxLength = hi] :
            lo \in {Undefined, Num(0), Num(SampleLength)},
            hi \in {Undefined, Num(0), Num(SampleLength + 1)}}
         \cup {[EmptyConfig EXCEPT !.minLength = Num(SampleLength + 1), !.maxLength = Num(1)]}
    [] OTHER ->
         {EmptyConfig, [EmptyConfig EXCEPT !.pattern = Str(<<"{", "U", "P", "P", "E", "R", "}", "{", "l", "o", "w", "e", "r", "}", "{", "d", "i", "g", "i", "t", "}", "-", "{", "r", "a", "n", "d", "o", "m", "}">>)],
          [EmptyConfig EXCEPT !.pattern = Str(<<"{", "r", "{", "l", "o", "w", "e", "r", "}", "n", "d", "o", "m", "}">>)]}

\* required, maxFieldLength, generateNegativeTests
FlagChoices ==
  {<<FALSE, Undefined, Undefined>>, <<TRUE, Undefined, Undefined>>,
   <<FALSE, Num(SampleLength), Undefined>>, <<FALSE, Undefined, Bool(TRUE)>>,
   <<TRUE, Num(SampleLength), Bool(TRUE)>>, <<FALSE, Num(-(ExceedBy + 1)), Undefined>>}

MakeField(id, name, type, dataType, flags, config) ==
  [id |-> id, name |-> name, type |-> type, dataType |-> dataType, required |-> flags[1],
   maxFieldLength |-> flags[2], generateNegativeTests |-> flags[3], config |-> config]

\* a field named "a" of every type, strategy, flag choice and configuration of its strategy
PrimaryFields ==
  UNION {{MakeField(<<1>>, <<"a">>, type, dataType, flags, config) :
            type \in FieldTypes, flags \in FlagChoices, config \in ConfigChoices(dataType)} :
         dataType \in DataTypes}

\* one configuration of each strategy, for the lists of two fields
PairedConfig(dataType) ==
  CASE dataType = "static" -> [EmptyConfig EXCEPT !.staticValue = Str(<<"a", "b", "c", "d">>)]
    [] dataType = "range" -> [EmptyConfig EXCEPT !.rangeMin = Num(-SampleBound), !.rangeMax = Num(SampleBound)]
    [] dataType = "lookup" -> [EmptyConfig EXCEPT !.lookupValues = Arr(<<<<"a", "b", "c">>, <<"x">>, <<"y", "z">>>>)]
    [] dataType = "minmax" -> [EmptyConfig EXCEPT !.minLength = Num(SampleLength), !.maxLength = Num(SampleLength + 1)]
    [] OTHER -> [EmptyConfig EXCEPT !.pattern = Str(<<"{", "U", "P", "P", "E", "R", "}", "{", "l", "o", "w", "e", "r", "}", "{", "d", "i", "g", "i", "t", "}", "-", "{", "r", "a", "n", "d", "o", "m", "}">>)]

PairedFields == {f \in PrimaryFields : f.config = PairedConfig(f.dataType)}

\* a second field: one of the same name, one without a name, and lookup fields of
\* two values, of one and of none
SiblingFields ==
  {MakeField(<<2>>, <<"a">>, "boolean", "static", <<FALSE, Undefined, Undefined>>,
             [EmptyConfig EXCEPT !.staticValue = Str(<<"z", "z">>)]),
   MakeField(<<2>>, <<>>, "string", "static", <<TRUE, Undefined, Undefined>>,
             [EmptyConfig EXCEPT !.staticValue = Str(<<"z", "z">>)]),
   MakeField(<<2>>, <<"b">>, "string", "lookup", <<TRUE, Num(SampleLength), Undefined>>,
             [EmptyConfig EXCEPT !.lookupValues = Arr(<<<<"k", "l", "m">>, <<"n">>>>)]),
   MakeField(<<2>>, <<"b">>, "string", "lookup", <<FALSE, Undefined, Undefined>>,
             [EmptyConfig EXCEPT !.lookupValues = Arr(<<<<"n">>>>)]),
   MakeField(<<2>>, <<"b">>, "string", "lookup", <<FALSE, Undefined, Undefined>>, EmptyConfig)}

ConfiguredFieldLists ==
  {<<f>> : f \in PrimaryFields} \cup {<<f, g>> : f \in PairedFields, g \in SiblingFields}

-----------------------------------------------------------------------------
(* Handlers *)

\* generateTestData writing back the field list without its nameless fields
GenerateTestData_DropsNamelessFields ==
  /\ \E seed \in Seeds :
       IF generateTestDataThrows(fields)
       THEN /\ uncaught' = "TypeError"
            /\ UNCHANGED <<generatedData, filteredData>>
       ELSE IF negativeRecordsThrow(fields, includeNegativeTests)
       THEN /\ uncaught' = "RangeError"
            /\ UNCHANGED <<generatedData, filteredData>>
       ELSE /\ generatedData' = generateTestDataResult(fields, recordCount, includeNegativeTests, seed)
            /\ filteredData' = generatedData'
            /\ uncaught' = "none"
  /\ fields' = SelectSeq(fields, LAMBDA field : field.name # <<>>)
  /\ UNCHANGED <<sidFile, parsedSidData, sidFields>>
  /\ UNCHANGED <<recordCount, includeNegativeTests, selectedTestType, pendingUploads, now>>

\* generateTestData: the Math.random() draws of the run are those of one seed
GenerateTestData ==
  /\ \E seed \in Seeds :
       IF generateTestDataThrows(fields)
       THEN /\ uncaught' = "TypeError"
            /\ UNCHANGED <<generatedData, filteredData>>
       ELSE IF negativeRecordsThrow(fields, includeNegativeTests)
       THEN /\ uncaught' = "RangeError"
            /\ UNCHANGED <<generatedData, filteredData>>
       ELSE /\ generatedData' = generateTestDataResult(fields, recordCount, includeNegativeTests, seed)
            /\ filteredData' = generatedData'
            /\ uncaught' = "none"
  /\ UNCHANGED <<sidFile, parsedSidData, sidFields>>
  /\ UNCHANGED <<fields, recordCount, includeNegativeTests, selectedTestType, pendingUploads, now>>

-----------------------------------------------------------------------------
(* Field list handlers *)

\* { ...field, ...updates }
Merge(record, updates) ==
  [x \in DOMAIN record |-> IF x \in DOMAIN updates THEN updates[x] ELSE record[x]]

updateField(fs, id, updates) ==
  [j \in DOMAIN fs |-> IF fs[j].id = id THEN Merge(fs[j], updates) ELSE fs[j]]

\* fields.find((f) => f.id === id) as an index, 0 when there is none
FindField(fs, id) ==
  IF \E j \in DOMAIN fs : fs[j].id = id
  THEN CHOOSE j \in DOMAIN fs : fs[j].id = id /\ \A h \in 1..(j - 1) : fs[h].id # id
  ELSE 0

RECURSIVE FilterOutId(_, _)
FilterOutId(fs, id) ==
  IF fs = <<>> THEN <<>>
  ELSE (IF Head(fs).id # id THEN <<Head(fs)>> ELSE <<>>) \o FilterOutId(Tail(fs), id)

\* the most fields the list holds
MaxFields == 2

\* the most uploads whose file read has not completed
MaxPending == 2

\* the last reading of the clock
MaxTime == 2

\* the most handlers one run of the configuration screen takes
MaxOps == 7

\* addField: the id is the clock's reading, which is at least the previous one
AddField ==
  /\ Len(fields) < MaxFields
  /\ \E t \in {now, now + 1} :
       /\ t <= MaxTime
       /\ now' = t
       /\ fields' = Append(fields, NewField(<<t>>))
  /\ UNCHANGED <<sidFile, parsedSidData, sidFields>>
  /\ UNCHANGED <<recordCount, includeNegativeTests, generatedData, filteredData,
                 selectedTestType, pendingUploads, uncaught>>

RemoveField ==
  /\ \E j \in DOMAIN fields : fields' = FilterOutId(fields, fields[j].id)
  /\ UNCHANGED <<sidFile, parsedSidData, sidFields>>
  /\ UNCHANGED <<recordCount, includeNegativeTests, generatedData, filteredData,
                 selectedTestType, pendingUploads, now, uncaught>>

\* the Generation Type select
SetDataType ==
  /\ \E j \in DOMAIN fields, value \in {"static", "lookup"} :
       /\ fields[j].dataType # value
       /\ fields' = updateField(fields, fields[j].id, [dataType |-> value])
  /\ UNCHANGED <<sidFile, parsedSidData, sidFields>>
  /\ UNCHANGED <<recordCount, includeNegativeTests, generatedData, filteredData,
                 selectedTestType, pendingUploads, now, uncaught>>

ManualTexts == {<<"a", "b", "c", ",", " ", "x">>, <<" ", ",", " ">>}

RECURSIVE MapTrim(_)
MapTrim(xs) == IF xs = <<>> THEN <<>> ELSE <<Trim(Head(xs))>> \o MapTrim(Tail(xs))

RECURSIVE FilterNonEmpty(_)
FilterNonEmpty(xs) ==
  IF xs = <<>> THEN <<>>
  ELSE (IF Len(Head(xs)) > 0 THEN <<Head(xs)>> ELSE <<>>) \o FilterNonEmpty(Tail(xs))

FileObject(text) == [t |-> "object", text |-> text]

\* the config the Manual Entry textarea stores
ManualEntryConfig(config, values) ==
  Merge(config, [lookupValues |-> Arr(values), csvFile |-> Undefined,
                 csvData |-> Undefined, csvColumn |-> Undefined])

\* the column select leaving the manual list in place
SelectColumnConfig_KeepsManual(config, value) ==
  Merge(config, [csvColumn |-> Str(value)])

\* the config the Select Column select stores
SelectColumnConfig(config, value) ==
  Merge(config, [csvColumn |-> Str(value), lookupValues |-> Undefined])

\* the config handleCsvUpload stores
CsvUploadConfig(config, text, csvData) ==
  Merge(config, [csvFile |-> FileObject(text), csvData |-> Arr(csvData)])

\* the Manual Entry textarea of a lookup field
ManualLookupEntry ==
  /\ \E j \in DOMAIN fields, inputValue \in ManualTexts :
       /\ fields[j].dataType = "lookup"
       /\ LET values == FilterNonEmpty(MapTrim(Split(inputValue, ",")))
          IN fields' = updateField(fields, fields[j].id,
                         [config |-> ManualEntryConfig(fields[j].config, values)])
  /\ UNCHANGED <<sidFile, parsedSidData, sidFields>>
  /\ UNCHANGED <<recordCount, includeNegativeTests, generatedData, filteredData,
                 selectedTestType, pendingUploads, now, uncaught>>

\* the Select Column select, shown while csvData has a row
SelectCsvColumn ==
  /\ \E j \in DOMAIN fields :
       /\ fields[j].dataType = "lookup"
       /\ Truthy(fields[j].config.csvData)
       /\ Len(fields[j].config.csvData.a) > 0
       /\ \E h \in DOMAIN fields[j].config.csvData.a[1] :
            fields' = updateField(fields, fields[j].id,
                        [config |-> SelectColumnConfig(fields[j].config,
                                                       fields[j].config.csvData.a[1][h])])
  /\ UNCHANGED <<sidFile, parsedSidData, sidFields>>
  /\ UNCHANGED <<recordCount, includeNegativeTests, generatedData, filteredData,
                 selectedTestType, pendingUploads, now, uncaught>>

CsvFiles == {<<"h", "1", ",", "h", "2", "\n", "p", ",", "q", "\n", ",", "r", "s", "t", "\n", "u">>, <<"h", "3", "\n", "w">>, <<" ", "\n">>, <<>>}

\* value.trim().replace(/^"|"$/g, "")
StripQuotes(s) ==
  LET a == IF Len(s) > 0 /\ s[1] = "\"" THEN Tail(s) ELSE s
  IN IF Len(a) > 0 /\ a[Len(a)] = "\"" THEN SubSeq(a, 1, Len(a) - 1) ELSE a

\* the cells of one line
RECURSIVE ParseCsvLine(_, _, _, _)
ParseCsvLine(line, i, current, inQuotes) ==
  IF i > Len(line) THEN <<StripQuotes(Trim(current))>>
  ELSE IF line[i] = "\"" THEN ParseCsvLine(line, i + 1, current, ~inQuotes)
  ELSE IF line[i] = "," /\ ~inQuotes
       THEN <<StripQuotes(Trim(current))>> \o ParseCsvLine(line, i + 1, <<>>, inQuotes)
  ELSE ParseCsvLine(line, i + 1, Append(current, line[i]), inQuotes)

\* parseCsvFile rejects a file without text
parseCsvFileRejects(text) == Len(text) = 0

parseCsvFile(text) ==
  LET lines == FilterNonBlank(Split(text, "\n"))
  IN [n \in DOMAIN lines |-> ParseCsvLine(lines[n], 1, <<>>, FALSE)]

\* handleCsvUpload up to its await: the file read is started; the handler keeps the
\* fields of the render it was created in
HandleCsvUpload ==
  /\ Cardinality(pendingUploads) < MaxPending
  /\ \E j \in DOMAIN fields, text \in CsvFiles :
       /\ fields[j].dataType = "lookup"
       /\ pendingUploads' = pendingUploads \cup
            {[fieldId |-> fields[j].id, file |-> text, fields |-> fields]}
  /\ UNCHANGED <<sidFile, parsedSidData, sidFields>>
  /\ UNCHANGED <<fields, recordCount, includeNegativeTests, generatedData, filteredData,
                 selectedTestType, now, uncaught>>

\* handleCsvUpload after its await: updateField of the same render
CsvUploadCompletes ==
  /\ \E upload \in pendingUploads :
       /\ pendingUploads' = pendingUploads \ {upload}
       /\ IF parseCsvFileRejects(upload.file)
          THEN UNCHANGED fields
          ELSE LET found == FindField(upload.fields, upload.fieldId)
                   config == IF found = 0 THEN EmptyConfig ELSE upload.fields[found].config
               IN fields' = updateField(upload.fields, upload.fieldId,
                              [config |-> CsvUploadConfig(config, upload.file,
                                                          parseCsvFile(upload.file))])
  /\ UNCHANGED <<sidFile, parsedSidData, sidFields>>
  /\ UNCHANGED <<recordCount, includeNegativeTests, generatedData, filteredData,
                 selectedTestType, now, uncaught>>

-----------------------------------------------------------------------------
(* The configuration screen: fields are added, made lookup fields and given *)
(* a lookup source                                                          *)

Init ==
  /\ fields = <<>>
  /\ recordCount = 10
  /\ includeNegativeTests = FALSE
  /\ generatedData = <<>>
  /\ filteredData = <<>>
  /\ selectedTestType = Null
  /\ sidFile = Null
  /\ parsedSidData = Null
  /\ sidFields = <<>>
  /\ pendingUploads = {}
  /\ now = 0
  /\ ops = 0
  /\ uncaught = "none"

\* one more handler runs
Budget == ops < MaxOps /\ ops' = ops + 1

Next ==
  \/ Budget /\ AddField
  \/ Budget /\ RemoveField
  \/ Budget /\ SetDataType
  \/ Budget /\ ManualLookupEntry
  \/ Budget /\ SelectCsvColumn
  \/ Budget /\ HandleCsvUpload
  \/ Budget /\ CsvUploadCompletes

Spec == Init /\ [][Next]_vars

-----------------------------------------------------------------------------
(* Generation from a configured field list *)

-----------------------------------------------------------------------------
(* Selenium IDE files and the handler that reads them *)

Command(command, label, value) == [command |-> command, label |-> label, value |-> value]

SampleLabels == {Undefined, Str(<<>>), Str(<<"A", " ", "b">>), Str(<<"a", " ", " ", "b">>), Str(<<"P", "w">>)}

SampleValues ==
  {Str(<<>>), Str(<<"A", "b", "3", "x">>), Str(<<"1", "2", "3", "4", "5">>), Str(<<"1", "2", "3", "4", "5", "6">>), Str(<<"j", "@", "a", ".", "c">>), Str(<<"a", "@", "b", "@", "c">>),
   Str(<<"5", "5", "5", "-", "1", "2", "3", "-", "4", "5", "6", "7">>), Str(<<"a", "b", "c">>), Str(<<"a">>), Str(<<"{", "a", "1", "}">>)}

CommandKinds == {"type", "password", "click"}

SampleCommands ==
  {Command(command, label, value) :
     command \in CommandKinds, label \in SampleLabels, value \in SampleValues}

\* a first data command and a command after it, for the files of two commands
FirstCommands ==
  {Command("type", Str(<<"A", " ", "b">>), Str(<<"a", "b", "c">>)), Command("password", Str(<<"P", "w">>), Str(<<"A", "b", "3", "x">>))}

SecondCommands ==
  {Command("type", Str(<<"a", " ", " ", "b">>), Str(<<"1", "2", "3", "4", "5">>)), Command("type", Str(<<"A", " ", "b">>), Str(<<"j", "@", "a", ".", "c">>)),
   Command("type", Str(<<"P", "w">>), Str(<<"a", "b", "c">>)), Command("click", Str(<<"A", " ", "b">>), Str(<<"a", "b", "c">>)),
   Command("type", Str(<<"a", " ", " ", "b">>), Str(<<>>)), Command("type", Str(<<"T", "e", "l">>), Str(<<"5", "5", "5", "-", "1", "2", "3", "-", "4", "5", "6", "7">>)),
   Command("type", Str(<<"T", "e", "l">>), Str(<<"{", "d", "i", "g", "i", "t", "}", "5", "5", "5", "-", "1", "2", "3", "-", "4", "5", "6", "7">>))}

\* the tests of a file: each test is its sequence of commands
SidTests ==
  {<<<<c>>>> : c \in SampleCommands}
  \cup {<<<<c, d>>>> : c \in FirstCommands, d \in SecondCommands}
  \cup {<<<<c>>, <<d>>>> : c \in FirstCommands, d \in SecondCommands}

\* the object JSON.parse returns for a well-formed file
SidData(tests) ==
  [t |-> "object",
   tests |-> Arr([i \in DOMAIN tests |-> [t |-> "object", commands |-> Arr(tests[i])]])]

\* parsed objects that lack the structure: no tests member, and a test without
\* a commands member after a well-formed test
MalformedSidData ==
  {[t |-> "object", tests |-> Undefined]}
  \cup {[t |-> "object",
         tests |-> Arr(<<[t |-> "object", commands |-> Arr(<<c>>)],
                         [t |-> "object", commands |-> Undefined]>>)] : c \in FirstCommands}

\* a file: data is what JSON.parse returns for its text, Null when it throws
SidFileObject(data) == [t |-> "object", data |-> data]

SidFiles ==
  {SidFileObject(SidData(tests)) : tests \in SidTests}
  \cup {SidFileObject(data) : data \in MalformedSidData}
  \cup {SidFileObject(Null)}

\* the files chosen after a first one
LaterSidFiles ==
  {SidFileObject(data) : data \in MalformedSidData}
  \cup {SidFileObject(Null),
        SidFileObject(SidData(<<<<Command("type", Str(<<"T", "e", "l">>), Str(<<"5", "5", "5", "-", "1", "2", "3", "-", "4", "5", "6", "7">>))>>>>))}

\* the command sequences of the tests before the first one without commands
RECURSIVE TestsOf(_)
TestsOf(tests) ==
  IF tests = <<>> \/ Head(tests).commands = Undefined THEN <<>>
  ELSE <<Head(tests).commands.a>> \o TestsOf(Tail(tests))

\* sidData.tests.forEach / test.commands.forEach throws a TypeError
ExtractionThrows(sidData) ==
  \/ sidData.tests = Undefined
  \/ \E i \in DOMAIN sidData.tests.a : sidData.tests.a[i].commands = Undefined

\* the file input: setSidFile(file)
SelectSidFile ==
  /\ \E file \in LaterSidFiles : sidFile' = file
  /\ UNCHANGED <<parsedSidData, sidFields, fields, now, recordCount, includeNegativeTests,
                 generatedData, filteredData, selectedTestType, pendingUploads, uncaught>>

\* parseSidFile installing the fields extracted before the failure
ParseSidFile_InstallsExtracted ==
  /\ sidFile # Null
  /\ IF sidFile.data = Null
     THEN UNCHANGED <<parsedSidData, sidFields, fields, now>>
     ELSE /\ parsedSidData' = sidFile.data
          /\ \E seed \in Seeds : \E t \in {now, now + 1} :
               /\ t <= MaxTime
               /\ now' = t
               /\ sidFields' = ExtractFields(
                    AllCommands(IF sidFile.data.tests = Undefined THEN <<>>
                                ELSE TestsOf(sidFile.data.tests.a)),
                    1, <<>>, t, seed)
               /\ fields' = sidFields'
  /\ UNCHANGED <<sidFile, recordCount, includeNegativeTests, generatedData, filteredData,
                 selectedTestType, pendingUploads, uncaught>>

\* parseSidFile(file), after the file input stored the file in sidFile
ParseSidFile ==
  /\ sidFile # Null
  /\ IF sidFile.data = Null
     THEN UNCHANGED <<parsedSidData, sidFields, fields, now>>
     ELSE /\ parsedSidData' = sidFile.data
          /\ IF ExtractionThrows(sidFile.data)
             THEN UNCHANGED <<sidFields, fields, now>>
             ELSE \E seed \in Seeds : \E t \in {now, now + 1} :
                    /\ t <= MaxTime
                    /\ now' = t
                    /\ sidFields' = ExtractFields(AllCommands(TestsOf(sidFile.data.tests.a)),
                                                  1, <<>>, t, seed)
                    /\ fields' = sidFields'
  /\ UNCHANGED <<sidFile, recordCount, includeNegativeTests, generatedData, filteredData,
                 selectedTestType, pendingUploads, uncaught>>

\* the most files chosen after the first
MaxSelections == 1

SidInit ==
  /\ fields = <<>>
  /\ recordCount = 10
  /\ includeNegativeTests = FALSE
  /\ generatedData = <<>>
  /\ filteredData = <<>>
  /\ selectedTestType = Null
  /\ sidFile \in SidFiles
  /\ parsedSidData = Null
  /\ sidFields = <<>>
  /\ pendingUploads = {}
  /\ now = 0
  /\ ops = 0
  /\ uncaught = "none"

SidNext ==
  \/ ParseSidFile /\ UNCHANGED ops
  \/ ops < MaxSelections /\ ops' = ops + 1 /\ SelectSidFile

SidSpec == SidInit /\ [][SidNext]_vars

\* the field lists parseSidFile leaves for files of one type command and of
\* two commands in one test
InferredFieldLists ==
  {ExtractFields(AllCommands(tests), 1, <<>>, 1, [a |-> 0, b |-> 1]) :
     tests \in {<<<<Command("type", Str(<<"A", " ", "b">>), value)>>>> : value \in SampleValues}
              \cup {<<<<c, d>>>> : c \in FirstCommands, d \in SecondCommands}}
  \ {<<>>}

GenFieldLists == ConfiguredFieldLists \cup InferredFieldLists

GenInit ==
  /\ fields \in GenFieldLists
  /\ recordCount \in 1..MaxRecordCount
  /\ includeNegativeTests \in BOOLEAN
  /\ generatedData = <<>>
  /\ filteredData = <<>>
  /\ selectedTestType = Null
  /\ sidFile = Null
  /\ parsedSidData = Null
  /\ sidFields = <<>>
  /\ pendingUploads = {}
  /\ now = 1
  /\ ops = 0
  /\ uncaught = "none"

GenNext == GenerateTestData /\ UNCHANGED ops

GenSpec == GenInit /\ [][GenNext]_vars


-----------------------------------------------------------------------------
(* The generated-data panel: the filter cards, Show All and loading a stored *)
(* generation                                                                *)

TestTypeFilters == {<<"p", "o", "s", "i", "t", "i", "v", "e">>, <<"n", "e", "g", "a", "t", "i", "v", "e">>, <<"a", "u", "t", "o">>}

StartsWith(s, prefix) == Len(s) >= Len(prefix) /\ SubSeq(s, 1, Len(prefix)) = prefix

\* the filter predicate of a card's onClick
MatchesFilter(record, filter) ==
  CASE filter = <<"p", "o", "s", "i", "t", "i", "v", "e">> -> record[KeyTestType] = Str(<<"p", "o", "s", "i", "t", "i", "v", "e">>)
    [] filter = <<"n", "e", "g", "a", "t", "i", "v", "e">> ->
         KeyTestType \in DOMAIN record /\ StartsWith(record[KeyTestType].s, <<"n", "e", "g", "a", "t", "i", "v", "e">>)
    [] OTHER -> KeyAutoSelected \in DOMAIN record /\ Truthy(record[KeyAutoSelected])

\* a click on the card of a filter: a second click on the selected card clears it
FilterClick ==
  /\ generatedData # <<>>
  /\ \E filter \in TestTypeFilters :
       /\ selectedTestType' = IF selectedTestType = Str(filter) THEN Null ELSE Str(filter)
       /\ filteredData' = IF selectedTestType = Str(filter) THEN generatedData
                          ELSE SelectSeq(generatedData, LAMBDA record : MatchesFilter(record, filter))
  /\ UNCHANGED <<fields, recordCount, includeNegativeTests, generatedData, sidFile,
                 parsedSidData, sidFields, pendingUploads, now, uncaught>>

\* the Show All button, rendered while a filter is selected
ShowAll ==
  /\ generatedData # <<>>
  /\ Truthy(selectedTestType)
  /\ selectedTestType' = Null
  /\ filteredData' = generatedData
  /\ UNCHANGED <<fields, recordCount, includeNegativeTests, generatedData, sidFile,
                 parsedSidData, sidFields, pendingUploads, now, uncaught>>

\* the field lists of the panel's runs: one static field of type string or
\* boolean, of every flag choice
FilterFieldLists ==
  {<<f>> : f \in {g \in PrimaryFields :
                    /\ g.dataType = "static"
                    /\ g.type \in {"string", "boolean"}
                    /\ g.config = PairedConfig("static")}}

\* generations saved before: the fields and the data of a run of one record
StoredGenerations ==
  {[fieldConfigs |-> fs, data |-> generateTestDataResult(fs, 1, TRUE, [a |-> 0, b |-> 1])] :
     fs \in {gs \in FilterFieldLists :
               ~generateTestDataThrows(gs) /\ ~negativeRecordsThrow(gs, TRUE)}}

\* loadGeneration(generation)
LoadGeneration ==
  /\ \E generation \in StoredGenerations :
       /\ fields' = generation.fieldConfigs
       /\ generatedData' = generation.data
       /\ filteredData' = generation.data
  /\ UNCHANGED <<recordCount, includeNegativeTests, selectedTestType, sidFile,
                 parsedSidData, sidFields, pendingUploads, now, uncaught>>

FilterInit ==
  /\ fields \in FilterFieldLists
  /\ recordCount \in 1..MaxRecordCount
  /\ includeNegativeTests \in BOOLEAN
  /\ generatedData = <<>>
  /\ filteredData = <<>>
  /\ selectedTestType = Null
  /\ sidFile = Null
  /\ parsedSidData = Null
  /\ sidFields = <<>>
  /\ pendingUploads = {}
  /\ now = 0
  /\ ops = 0
  /\ uncaught = "none"

FilterNext ==
  \/ GenerateTestData /\ UNCHANGED ops
  \/ FilterClick /\ UNCHANGED ops
  \/ ShowAll /\ UNCHANGED ops
  \/ LoadGeneration /\ UNCHANGED ops

FilterSpec == FilterInit /\ [][FilterNext]_vars
-----------------------------------------------------------------------------
(* Properties of the generated record set *)

IsNegativeRecord(record) == KeyTargetField \in DOMAIN record

IsPositiveRecord(record) == ~IsNegativeRecord(record)

\* the kind of a negative record: its _testType without the negative_ prefix
KindOf(record) ==
  SubSeq(record[KeyTestType].s, Len(<<"n", "e", "g", "a", "t", "i", "v", "e", "_">>) + 1, Len(record[KeyTestType].s))

MetadataKeys == {KeyTestType, KeyTargetField, KeyAutoSelected}

NamesAreUnique ==
  \A j, h \in DOMAIN fields : fields[j].name = fields[h].name => j = h

\* C1: a field whose name is empty contributes no key to any generated record
\* and is never the target of a negative record.
C1_NamelessFieldsContributeNothing ==
  \A n \in DOMAIN generatedData :
    /\ <<>> \notin DOMAIN generatedData[n]
    /\ DOMAIN generatedData[n] \subseteq
         MetadataKeys \cup {fields[j].name : j \in DOMAIN fields}
    /\ IsNegativeRecord(generatedData[n]) =>
         generatedData[n][KeyTargetField] # Str(<<>>)

\* a nameless field that is required, so eligible for negative tests, sat in
\* the list of a run that produced negative records
C1_NamelessEligibleFieldGenerated ==
  /\ \E j \in DOMAIN fields :
       Len(fields[j].name) = 0 /\ shouldAutoEnableNegativeTests(fields[j])
  /\ \E n \in DOMAIN generatedData : IsNegativeRecord(generatedData[n])

\* C2: no field of the list holds both a manual lookupValues list and a
\* selected csvColumn.
C2_LookupSourcesExclusive ==
  \A j \in DOMAIN fields :
    ~(fields[j].config.lookupValues # Undefined /\ fields[j].config.csvColumn # Undefined)

\* a field that held a manual list when an upload started (the upload still
\* in flight carries that list) has since had a CSV column selected
C2_ColumnSelectedOverManual ==
  \E j \in DOMAIN fields : \E upload \in pendingUploads :
    \E h \in DOMAIN upload.fields :
      /\ upload.fields[h].id = fields[j].id
      /\ upload.fields[h].config.lookupValues # Undefined
      /\ fields[j].config.csvColumn # Undefined

\* C3: once generation has run, every named field that has its
\* generateNegativeTests flag set or is auto-eligible, and has an applicable
\* kind, is the target of at least one negative record, whatever the other
\* fields and the global include-negative-tests switch are.
C3_EligibleFieldIsTargeted ==
  generatedData # <<>> =>
    \A j \in DOMAIN fields :
      (/\ Len(fields[j].name) > 0
       /\ Truthy(fields[j].generateNegativeTests) \/ shouldAutoEnableNegativeTests(fields[j])
       /\ getNegativeTestTypes(fields[j]) # <<>>)
      => \E n \in DOMAIN generatedData :
           /\ IsNegativeRecord(generatedData[n])
           /\ generatedData[n][KeyTargetField] = Str(fields[j].name)

\* the draws a run of generateTestData can hand to one generateFieldValue call
DrawIndices == 0..DrawIndex(Len(generatedData), Len(fields))

\* C4: in every negative record the key named by _targetField holds
\* generateNegativeValue(targetField, kind) for the kind of its _testType, and
\* every other key holds a value generateFieldValue produces for the field of
\* that name, also when two fields carry the same name.
C4_NegativeRecordValues ==
  \A n \in DOMAIN generatedData :
    IsNegativeRecord(generatedData[n]) =>
      \E j \in DOMAIN fields :
        /\ Str(fields[j].name) = generatedData[n][KeyTargetField]
        /\ IsNegativeTestField(fields[j])
        /\ KindOf(generatedData[n]) \in Range(getNegativeTestTypes(fields[j]))
        /\ generatedData[n][fields[j].name] =
             generateNegativeValue(fields[j], KindOf(generatedData[n]))
        /\ \A key \in DOMAIN generatedData[n] \ (MetadataKeys \cup {fields[j].name}) :
             \E h \in DOMAIN fields : \E seed \in Seeds : \E k \in DrawIndices :
               /\ fields[h].name = key
               /\ generatedData[n][key] = generateFieldValue(fields[h], seed, k)

\* the kinds the specification's table lists for a field
ExpectedKinds(field) ==
  (IF field.required THEN {<<"e", "m", "p", "t", "y">>, <<"n", "u", "l", "l">>} ELSE {})
  \cup (IF field.type = "string"
        THEN {<<"t", "o", "o", "_", "l", "o", "n", "g">>, <<"s", "p", "e", "c", "i", "a", "l", "_", "c", "h", "a", "r", "s">>, <<"s", "q", "l", "_", "i", "n", "j", "e", "c", "t", "i", "o", "n">>}
             \cup (IF field.maxFieldLength # Undefined THEN {<<"e", "x", "c", "e", "e", "d", "_", "l", "e", "n", "g", "t", "h">>} ELSE {})
        ELSE {})
  \cup (IF field.type = "email"
        THEN {<<"i", "n", "v", "a", "l", "i", "d", "_", "f", "o", "r", "m", "a", "t">>, <<"m", "i", "s", "s", "i", "n", "g", "_", "a", "t">>, <<"m", "i", "s", "s", "i", "n", "g", "_", "d", "o", "m", "a", "i", "n">>} ELSE {})
  \cup (IF field.type = "phone"
        THEN {<<"i", "n", "v", "a", "l", "i", "d", "_", "f", "o", "r", "m", "a", "t">>, <<"t", "o", "o", "_", "s", "h", "o", "r", "t">>, <<"t", "o", "o", "_", "l", "o", "n", "g">>, <<"l", "e", "t", "t", "e", "r", "s">>} ELSE {})
  \cup (IF field.type = "number"
        THEN {<<"s", "t", "r", "i", "n", "g", "_", "v", "a", "l", "u", "e">>, <<"n", "e", "g", "a", "t", "i", "v", "e">>, <<"d", "e", "c", "i", "m", "a", "l">>, <<"o", "v", "e", "r", "f", "l", "o", "w">>}
             \cup (IF field.config.rangeMin # Undefined THEN {<<"b", "e", "l", "o", "w", "_", "m", "i", "n">>} ELSE {})
             \cup (IF field.config.rangeMax # Undefined THEN {<<"a", "b", "o", "v", "e", "_", "m", "a", "x">>} ELSE {})
        ELSE {})
  \cup (IF field.type = "date"
        THEN {<<"i", "n", "v", "a", "l", "i", "d", "_", "f", "o", "r", "m", "a", "t">>, <<"f", "u", "t", "u", "r", "e", "_", "d", "a", "t", "e">>, <<"p", "a", "s", "t", "_", "d", "a", "t", "e">>, <<"i", "n", "v", "a", "l", "i", "d", "_", "d", "a", "y">>} ELSE {})
  \cup (IF field.type = "boolean" THEN {<<"s", "t", "r", "i", "n", "g", "_", "v", "a", "l", "u", "e">>, <<"n", "u", "m", "b", "e", "r", "_", "v", "a", "l", "u", "e">>} ELSE {})

NoDuplicates(s) == \A i, j \in DOMAIN s : s[i] = s[j] => i = j

\* C5: getNegativeTestTypes(field) lists exactly the kinds of the table (empty
\* and null if required, then the kinds of the field's type with the optional
\* exceed_length, below_min and above_max), each once; the negative records of
\* a run that target a uniquely named field carry exactly those kinds.
C5_KindsMatchTable ==
  \A j \in DOMAIN fields :
    /\ NoDuplicates(getNegativeTestTypes(fields[j]))
    /\ Range(getNegativeTestTypes(fields[j])) = ExpectedKinds(fields[j])
    /\ (/\ NamesAreUnique
        /\ \E n \in DOMAIN generatedData :
             /\ IsNegativeRecord(generatedData[n])
             /\ generatedData[n][KeyTargetField] = Str(fields[j].name))
       => {KindOf(generatedData[n]) :
             n \in {m \in DOMAIN generatedData :
                      /\ IsNegativeRecord(generatedData[m])
                      /\ generatedData[m][KeyTargetField] = Str(fields[j].name)}}
          = ExpectedKinds(fields[j])

\* a required number field with both range bounds set was the target of
\* negative records of its eight kinds
C5_RequiredNumberWithBounds ==
  \E j \in DOMAIN fields :
    /\ fields[j].type = "number" /\ fields[j].required
    /\ fields[j].config.rangeMin # Undefined /\ fields[j].config.rangeMax # Undefined
    /\ fields[j].maxFieldLength = Undefined
    /\ Cardinality({KindOf(generatedData[n]) :
                      n \in {m \in DOMAIN generatedData :
                               /\ IsNegativeRecord(generatedData[m])
                               /\ generatedData[m][KeyTargetField] = Str(fields[j].name)}}) = 8

\* C6: in a negative record that targets a uniquely named number field, the
\* below_min value is rangeMin - 1 and the above_max value is rangeMax + 1,
\* for every integer bound including 0 and negative bounds.
C6_BoundOffsets ==
  \A j \in DOMAIN fields :
    (fields[j].type = "number" /\ NamesAreUnique) =>
      \A n \in DOMAIN generatedData :
        (/\ IsNegativeRecord(generatedData[n])
         /\ generatedData[n][KeyTargetField] = Str(fields[j].name))
        => /\ (KindOf(generatedData[n]) = <<"b", "e", "l", "o", "w", "_", "m", "i", "n">> /\ IsInt(fields[j].config.rangeMin)) =>
                generatedData[n][fields[j].name] = Num(fields[j].config.rangeMin.n - 1)
           /\ (KindOf(generatedData[n]) = <<"a", "b", "o", "v", "e", "_", "m", "a", "x">> /\ IsInt(fields[j].config.rangeMax)) =>
                generatedData[n][fields[j].name] = Num(fields[j].config.rangeMax.n + 1)

\* C7: a range field with integer bounds rangeMin <= rangeMax holds, in every
\* positive record, an integer between the two bounds.
C7_RangeWithinBounds ==
  \A j \in DOMAIN fields :
    (/\ fields[j].dataType = "range"
     /\ IsInt(fields[j].config.rangeMin) /\ IsInt(fields[j].config.rangeMax)
     /\ fields[j].config.rangeMin.n <= fields[j].config.rangeMax.n
     /\ Len(fields[j].name) > 0
     /\ NamesAreUnique)
    => \A n \in DOMAIN generatedData :
         IsPositiveRecord(generatedData[n]) =>
           /\ IsInt(generatedData[n][fields[j].name])
           /\ fields[j].config.rangeMin.n <= generatedData[n][fields[j].name].n
           /\ generatedData[n][fields[j].name].n <= fields[j].config.rangeMax.n

HasLengthBounds(field) ==
  /\ field.dataType = "minmax"
  /\ IsInt(field.config.minLength) /\ IsInt(field.config.maxLength)
  /\ field.config.minLength.n <= field.config.maxLength.n

LengthWithinBounds(field, value) ==
  /\ value.t = "string"
  /\ field.config.minLength.n <= Len(value.s)
  /\ Len(value.s) <= field.config.maxLength.n

\* C8 as stated: for a minmax field of any type with minLength <= maxLength
\* set, the synthesized value before the maxFieldLength step is a string whose
\* length lies in [minLength, maxLength].
C8_LengthWithinBoundsAnyType ==
  \A j \in DOMAIN fields :
    HasLengthBounds(fields[j]) =>
      \A seed \in Seeds : \A k \in DrawIndices :
        LengthWithinBounds(fields[j], SynthesizedValue(fields[j], seed, k))

\* C8: for a minmax field of type string with minLength <= maxLength set and
\* maxLength >= 1, the synthesized value before the maxFieldLength step is a
\* string whose length lies in [minLength, maxLength]; without a
\* maxFieldLength the positive records of a run hold such a string.
C8_LengthWithinBoundsOfStrings ==
  \A j \in DOMAIN fields :
    (/\ HasLengthBounds(fields[j])
     /\ fields[j].type = "string"
     /\ fields[j].config.maxLength.n >= 1)
    => /\ \A seed \in Seeds : \A k \in DrawIndices :
            LengthWithinBounds(fields[j], SynthesizedValue(fields[j], seed, k))
       /\ (fields[j].maxFieldLength = Undefined /\ NamesAreUnique) =>
            \A n \in DOMAIN generatedData :
              IsPositiveRecord(generatedData[n]) =>
                LengthWithinBounds(fields[j], generatedData[n][fields[j].name])

\* a run has stored the string of a minmax field of type string whose two
\* length bounds differ
C8_StringOfBoundedLengthGenerated ==
  \E j \in DOMAIN fields :
    /\ HasLengthBounds(fields[j])
    /\ fields[j].type = "string"
    /\ fields[j].config.minLength.n >= 1
    /\ fields[j].config.minLength.n < fields[j].config.maxLength.n
    /\ fields[j].maxFieldLength = Undefined
    /\ \E n \in DOMAIN generatedData :
         /\ IsPositiveRecord(generatedData[n])
         /\ Len(generatedData[n][fields[j].name].s) = fields[j].config.maxLength.n

\* C9: for a uniquely named field with maxFieldLength set, every textual value
\* stored for it in a positive record, or in a negative record that targets
\* another field, has at most maxFieldLength characters, whatever the strategy
\* and also in the lookup-driven mode.
C9_TextWithinMaxFieldLength ==
  \A j \in DOMAIN fields :
    (/\ Truthy(fields[j].maxFieldLength)
     /\ Len(fields[j].name) > 0
     /\ NamesAreUnique)
    => \A n \in DOMAIN generatedData :
         (/\ fields[j].name \in DOMAIN generatedData[n]
          /\ IsNegativeRecord(generatedData[n]) =>
               generatedData[n][KeyTargetField] # Str(fields[j].name)
          /\ generatedData[n][fields[j].name].t = "string")
         => Len(generatedData[n][fields[j].name].s) <= fields[j].maxFieldLength.n

\* what a call of getLookupValues(field) ends with
getLookupValuesOutcome(field) ==
  IF getLookupValuesThrows(field)
  THEN [threw |-> TRUE, value |-> <<>>]
  ELSE [threw |-> FALSE, value |-> getLookupValues(field)]

\* the non-blank cells of the column named csvColumn, in row order, when the
\* header row has that column, and the empty sequence otherwise
ExpectedColumnCells(field) ==
  LET rows == field.config.csvData.a
  IN IF Len(rows) > 0 /\ field.config.csvColumn.s \in Range(rows[1])
     THEN FilterNonBlank(CsvColumnCells(rows, IndexOf(rows[1], field.config.csvColumn.s)))
     ELSE <<>>

\* C10: getLookupValues on a field with csvData and csvColumn both set returns
\* the non-blank cells of that column in row order when the header row has
\* the column, and an empty sequence when it has not.
C10_CsvColumnResolution ==
  \A j \in DOMAIN fields :
    (fields[j].config.csvData # Undefined /\ fields[j].config.csvColumn # Undefined) =>
      getLookupValuesOutcome(fields[j]) = [threw |-> FALSE, value |-> ExpectedColumnCells(fields[j])]

\* C11: in every state the CSV uploads and column selections reach, no lookup
\* field makes getLookupValues throw, generateTestData completes, and a lookup
\* field without candidates synthesizes the empty string.
C11_LookupSourceNeverFails ==
  /\ ~generateTestDataThrows(fields)
  /\ \A j \in DOMAIN fields :
       fields[j].dataType = "lookup" =>
         /\ ~getLookupValuesOutcome(fields[j]).threw
         /\ getLookupValuesOutcome(fields[j]).value = <<>> =>
              \A seed \in Seeds : generateFieldValue(fields[j], seed, 0) = Str(<<>>)

\* the lengths of the non-empty lists the lookup fields resolve to
ResolvedLengths ==
  {Len(getLookupValues(fields[j])) : j \in {h \in DOMAIN fields : fields[h].dataType = "lookup"}} \ {0}

PositiveIndices ==
  {n \in DOMAIN generatedData : generatedData[n][KeyTestType] = Str(<<"p", "o", "s", "i", "t", "i", "v", "e">>)}

\* C12: a completed run holds exactly recordCount positive records when no
\* lookup field resolves to a non-empty list, and exactly min(L, recordCount)
\* otherwise, L being the largest resolved length; the positive records are
\* those with _testType = "positive" and none of them carries _targetField.
C12_PositiveRecordCount ==
  (uncaught = "none" /\ generatedData # <<>>) =>
    /\ Cardinality(PositiveIndices) =
         IF ResolvedLengths = {} THEN recordCount ELSE Min(MaxOf(ResolvedLengths), recordCount)
    /\ \A n \in DOMAIN generatedData : n \in PositiveIndices <=> IsPositiveRecord(generatedData[n])

\* a run over a lookup field that resolves to fewer values than recordCount
\* stored one positive record per value
C12_FewerValuesThanRecordCount ==
  /\ uncaught = "none" /\ generatedData # <<>>
  /\ ResolvedLengths # {}
  /\ MaxOf(ResolvedLengths) < recordCount
  /\ Cardinality(PositiveIndices) = MaxOf(ResolvedLengths)

IsNegativeEligible(field) ==
  /\ Len(field.name) > 0
  /\ Truthy(field.generateNegativeTests) \/ shouldAutoEnableNegativeTests(field)

\* target name and kind of the negative records the fields from j on call
\* for: field by field in declaration order, kind by kind in the order of
\* getNegativeTestTypes
RECURSIVE ExpectedNegativeHeaders(_)
ExpectedNegativeHeaders(j) ==
  IF j > Len(fields) THEN <<>>
  ELSE (IF IsNegativeEligible(fields[j])
        THEN [q \in DOMAIN getNegativeTestTypes(fields[j]) |->
                <<fields[j].name, getNegativeTestTypes(fields[j])[q]>>]
        ELSE <<>>)
       \o ExpectedNegativeHeaders(j + 1)

\* C13: the records of a completed run are all the positive records first,
\* then for each negative-eligible named field in declaration order exactly
\* one negative record per applicable kind in the order of
\* getNegativeTestTypes.
C13_PositiveThenNegativeInOrder ==
  (uncaught = "none" /\ generatedData # <<>>) =>
    LET positives == Cardinality(PositiveIndices)
    IN /\ PositiveIndices = 1..positives
       /\ [n \in 1..(Len(generatedData) - positives) |->
             <<generatedData[positives + n][KeyTargetField].s,
               KindOf(generatedData[positives + n])>>]
          = ExpectedNegativeHeaders(1)

\* the same order, for the runs whose negative block is entered
OrderWhenNegativeBlockRuns ==
  shouldIncludeNegativeTests(fields, includeNegativeTests) => C13_PositiveThenNegativeInOrder

-----------------------------------------------------------------------------
(* Properties of field inference *)

\* the commands of the parsed file in the order parseSidFile visits them
\* the last parseSidFile ran to its end
ParsedAndExtracted == parsedSidData # Null /\ ~ExtractionThrows(parsedSidData)

ParsedTests == TestsOf(parsedSidData.tests.a)

ParsedCommands == AllCommands(ParsedTests)

\* the first data command whose label gives the field its name
SourceCommand(field) ==
  LET sources == {i \in DOMAIN ParsedCommands :
                    /\ IsDataCommand(ParsedCommands[i])
                    /\ FieldNameOf(ParsedCommands[i].label.s) = field.name}
  IN ParsedCommands[CHOOSE i \in sources : \A h \in sources : i <= h]

TextAfterFirstAt(value) == SubSeq(value, IndexOf(value, "@") + 1, Len(value))

TextBeforeFirstAt(value) ==
  IF "@" \in Range(value) THEN SubSeq(value, 1, IndexOf(value, "@") - 1) ELSE value

\* the rules of the inference table, first match first; domain is the text the
\* email pattern carries after its @
FollowsInferenceTable(field, command, domain) ==
  LET value == command.value.s IN
  /\ field.required
  /\ IF command.command = "password"
     THEN field.type = "string" /\ field.dataType = "pattern"
     ELSE IF \A i \in DOMAIN value : IsDigit(value[i])
     THEN /\ field.type = "number"
          /\ IF Len(value) >= 6
             THEN /\ field.dataType = "range"
                  /\ field.config.rangeMin = Num(Max(1, ParseDigits(value) - 1000000))
                  /\ field.config.rangeMax = Num(ParseDigits(value) + 1000000)
             ELSE field.dataType = "static" /\ field.config.staticValue = Str(value)
     ELSE IF "@" \in Range(value)
     THEN /\ field.type = "email" /\ field.dataType = "pattern"
          /\ field.config.pattern = Str(<<"{", "r", "a", "n", "d", "o", "m", "}", "@">> \o domain)
     ELSE IF Len(DigitsOnly(value)) >= 10
     THEN field.type = "phone" /\ field.dataType = "pattern"
     ELSE /\ field.type = "string" /\ field.dataType = "minmax"
          /\ field.config.minLength = Num(Max(1, Len(value) - 2))
          /\ field.config.maxLength = Num(Len(value) + 2)

\* C14 as stated: every inferred field is required and follows the inference
\* table, the email pattern being {random}@ and the text after the first @
\* of the value.
C14_InferenceWithTextAfterFirstAt ==
  ParsedAndExtracted =>
    \A j \in DOMAIN sidFields :
      FollowsInferenceTable(sidFields[j], SourceCommand(sidFields[j]),
                            TextAfterFirstAt(SourceCommand(sidFields[j]).value.s))

\* the same table with the email pattern as parseSidFile builds it: {random}@
\* and the text between the first @ of the value and its next @ (or its end)
InferenceWithTextUpToNextAt ==
  ParsedAndExtracted =>
    \A j \in DOMAIN sidFields :
      FollowsInferenceTable(sidFields[j], SourceCommand(sidFields[j]),
                            TextBeforeFirstAt(TextAfterFirstAt(SourceCommand(sidFields[j]).value.s)))

IsDataCommandAsStated(command) ==
  /\ command.command \in {"type", "password"}
  /\ command.label # Undefined /\ command.label.s # <<>>
  /\ command.value # Undefined /\ command.value.s # <<>>

RECURSIVE SortedSeq(_)
SortedSeq(S) ==
  IF S = {} THEN <<>>
  ELSE LET least == CHOOSE x \in S : \A y \in S : x <= y
       IN <<least>> \o SortedSeq(S \ {least})

LabelOf(command) == command.label.s

DerivedNameOf(command) == FieldNameOf(command.label.s)

\* the data commands that are the first of their key, in file order
FirstOccurrences(KeyOf(_)) ==
  SortedSeq({i \in DOMAIN ParsedCommands :
               /\ IsDataCommandAsStated(ParsedCommands[i])
               /\ \A h \in 1..(i - 1) :
                    IsDataCommandAsStated(ParsedCommands[h]) =>
                      KeyOf(ParsedCommands[h]) # KeyOf(ParsedCommands[i])})

\* sidFields holds one field per command of firsts, in that order, each named
\* and configured from its command, and fields holds the same list
OneFieldPerFirstOccurrence(firsts) ==
  /\ fields = sidFields
  /\ Len(sidFields) = Len(firsts)
  /\ \A p \in DOMAIN firsts :
       /\ p <= Len(sidFields)
       /\ sidFields[p].name = FieldNameOf(ParsedCommands[firsts[p]].label.s)
       /\ sidFields[p].type = InferredShape(ParsedCommands[firsts[p]]).type
       /\ sidFields[p].dataType = InferredShape(ParsedCommands[firsts[p]]).dataType
       /\ sidFields[p].config = InferredShape(ParsedCommands[firsts[p]]).config

\* C15 as stated: parseSidFile gives exactly one field per distinct non-empty
\* label seen on a type or password command with a non-empty value, in order
\* of first occurrence and configured from that first command.
C15_OneFieldPerDistinctLabel ==
  ParsedAndExtracted => OneFieldPerFirstOccurrence(FirstOccurrences(LabelOf))

\* C15: parseSidFile gives exactly one field per distinct derived name (the
\* label lower-cased, each run of whitespace replaced by _) seen on a type or
\* password command with non-empty label and value, in order of first
\* occurrence and configured from that first command; every command the
\* analysis panel lists as a data field has its field.
C15_OneFieldPerDistinctName ==
  ParsedAndExtracted =>
    /\ OneFieldPerFirstOccurrence(FirstOccurrences(DerivedNameOf))
    /\ \A test \in DOMAIN ParsedTests :
         \A i \in DOMAIN dataFields(ParsedTests[test]) :
           \E j \in DOMAIN sidFields :
             sidFields[j].name = FieldNameOf(dataFields(ParsedTests[test])[i].label.s)

\* a parsed file held two data commands of different labels and one derived
\* name, and the one field that came out is configured from the first
C15_LaterCommandIgnored ==
  /\ ParsedAndExtracted
  /\ Len(ParsedCommands) = 2
  /\ \A i \in DOMAIN ParsedCommands : IsDataCommandAsStated(ParsedCommands[i])
  /\ ParsedCommands[1].label # ParsedCommands[2].label
  /\ Len(sidFields) = 1
  /\ sidFields[1].dataType = "minmax"

-----------------------------------------------------------------------------
(* Properties of the pattern compiler and expander *)

AsciiUpper == Range(<<"A", "B", "C", "D", "E", "F", "G", "H", "I", "J", "K", "L", "M", "N", "O", "P", "Q", "R", "S", "T", "U", "V", "W", "X", "Y", "Z">>)

AsciiLower == Range(<<"a", "b", "c", "d", "e", "f", "g", "h", "i", "j", "k", "l", "m", "n", "o", "p", "q", "r", "s", "t", "u", "v", "w", "x", "y", "z">>)

AsciiDigit == Range(<<"0", "1", "2", "3", "4", "5", "6", "7", "8", "9">>)

\* the tokens of a sample joined from position i on
RECURSIVE JoinFrom(_, _)
JoinFrom(tokens, i) == IF i > Len(tokens) THEN <<>> ELSE tokens[i] \o JoinFrom(tokens, i + 1)

PasswordPatternByPosition(sample) ==
  JoinFrom([i \in DOMAIN sample |->
              IF sample[i] \in AsciiUpper THEN <<"{", "U", "P", "P", "E", "R", "}">>
              ELSE IF sample[i] \in AsciiLower THEN <<"{", "l", "o", "w", "e", "r", "}">>
              ELSE IF sample[i] \in AsciiDigit THEN <<"{", "d", "i", "g", "i", "t", "}">>
              ELSE <<sample[i]>>], 1)

PhonePatternByPosition(sample) ==
  JoinFrom([i \in DOMAIN sample |->
              IF sample[i] \in AsciiDigit THEN <<"{", "d", "i", "g", "i", "t", "}">> ELSE <<sample[i]>>], 1)

\* C16: generatePasswordPattern maps each character of the sample, position
\* by position, to {UPPER}, {lower}, {digit} or itself, and
\* generatePhonePattern replaces every digit by {digit} and keeps the rest;
\* the fields inferred from a password command or a phone value carry those
\* patterns.
C16_PatternsByPosition ==
  ParsedAndExtracted =>
    /\ \A i \in DOMAIN ParsedCommands :
         /\ generatePasswordPattern(ParsedCommands[i].value.s)
              = PasswordPatternByPosition(ParsedCommands[i].value.s)
         /\ generatePhonePattern(ParsedCommands[i].value.s)
              = PhonePatternByPosition(ParsedCommands[i].value.s)
    /\ \A j \in DOMAIN sidFields :
         /\ SourceCommand(sidFields[j]).command = "password" =>
              sidFields[j].config.pattern
                = Str(PasswordPatternByPosition(SourceCommand(sidFields[j]).value.s))
         /\ sidFields[j].type = "phone" =>
              sidFields[j].config.pattern
                = Str(PhonePatternByPosition(SourceCommand(sidFields[j]).value.s))

\* a parsed file gave the password sample "Ab3x" the pattern
\* {UPPER}{lower}{digit}{lower} and a phone sample a pattern of {digit} and
\* hyphens
C16_PasswordAndPhoneInferred ==
  /\ ParsedAndExtracted
  /\ \E j \in DOMAIN sidFields :
       /\ SourceCommand(sidFields[j]).command = "password"
       /\ SourceCommand(sidFields[j]).value = Str(<<"A", "b", "3", "x">>)
       /\ sidFields[j].config.pattern = Str(<<"{", "U", "P", "P", "E", "R", "}", "{", "l", "o", "w", "e", "r", "}", "{", "d", "i", "g", "i", "t", "}", "{", "l", "o", "w", "e", "r", "}">>)
  /\ \E j \in DOMAIN sidFields :
       /\ sidFields[j].type = "phone"
       /\ sidFields[j].config.pattern
            = Str(<<"{", "d", "i", "g", "i", "t", "}", "{", "d", "i", "g", "i", "t", "}", "{", "d", "i", "g", "i", "t", "}", "-", "{", "d", "i", "g", "i", "t", "}", "{", "d", "i", "g", "i", "t", "}", "{", "d", "i", "g", "i", "t", "}", "-", "{", "d", "i", "g", "i", "t", "}", "{", "d", "i", "g", "i", "t", "}", "{", "d", "i", "g", "i", "t", "}", "{", "d", "i", "g", "i", "t", "}">>)

AsciiBase36 == AsciiDigit \cup AsciiLower

StartsAt(s, i, token) ==
  i + Len(token) - 1 <= Len(s) /\ SubSeq(s, i, i + Len(token) - 1) = token

\* result from position p on is an expansion of template from position i on,
\* the template read once from left to right: a placeholder stands for one
\* upper-case letter, one lower-case letter, one digit or up to six base-36
\* characters, every other character for itself
RECURSIVE Tokenised(_, _, _, _)
Tokenised(result, p, template, i) ==
  IF i > Len(template) THEN p = Len(result) + 1
  ELSE IF StartsAt(template, i, <<"{", "U", "P", "P", "E", "R", "}">>)
  THEN p <= Len(result) /\ result[p] \in AsciiUpper
       /\ Tokenised(result, p + 1, template, i + Len(<<"{", "U", "P", "P", "E", "R", "}">>))
  ELSE IF StartsAt(template, i, <<"{", "l", "o", "w", "e", "r", "}">>)
  THEN p <= Len(result) /\ result[p] \in AsciiLower
       /\ Tokenised(result, p + 1, template, i + Len(<<"{", "l", "o", "w", "e", "r", "}">>))
  ELSE IF StartsAt(template, i, <<"{", "d", "i", "g", "i", "t", "}">>)
  THEN p <= Len(result) /\ result[p] \in AsciiDigit
       /\ Tokenised(result, p + 1, template, i + Len(<<"{", "d", "i", "g", "i", "t", "}">>))
  ELSE IF StartsAt(template, i, <<"{", "r", "a", "n", "d", "o", "m", "}">>)
  THEN \E n \in 0..6 :
         /\ p + n - 1 <= Len(result)
         /\ \A q \in p..(p + n - 1) : result[q] \in AsciiBase36
         /\ Tokenised(result, p + n, template, i + Len(<<"{", "r", "a", "n", "d", "o", "m", "}">>))
  ELSE p <= Len(result) /\ result[p] = template[i]
       /\ Tokenised(result, p + 1, template, i + 1)

HasPattern(field) == field.dataType = "pattern" /\ field.config.pattern # Undefined

\* C17: the value a positive record holds for a uniquely named pattern field
\* without maxFieldLength is an expansion of one left-to-right tokenisation of
\* its template: each placeholder of the template is replaced and everything
\* else, unrecognised brace groups included, is copied.
C17_SingleTokenisation ==
  \A j \in DOMAIN fields :
    (/\ HasPattern(fields[j])
     /\ Len(fields[j].name) > 0
     /\ fields[j].maxFieldLength = Undefined
     /\ NamesAreUnique)
    => \A n \in DOMAIN generatedData :
         IsPositiveRecord(generatedData[n]) =>
           /\ generatedData[n][fields[j].name].t = "string"
           /\ Tokenised(generatedData[n][fields[j].name].s, 1, fields[j].config.pattern.s, 1)


\* the runtime shape a field type declares for its values
DeclaredShape(type) ==
  CASE type = "number" -> "number"
    [] type = "boolean" -> "boolean"
    [] OTHER -> "string"

\* C18: in every positive record, the value stored for a field has the
\* runtime shape of the field's type: a number for number, a boolean for
\* boolean, a string for every other type.
C18_ShapeMatchesType ==
  (uncaught = "none" /\ NamesAreUnique) =>
    \A i \in 1..Len(generatedData) :
      IsPositiveRecord(generatedData[i]) =>
        \A j \in 1..Len(fields) :
          fields[j].name # <<>> =>
            generatedData[i][fields[j].name].t = DeclaredShape(fields[j].type)

FieldKeys ==
  {"id", "name", "type", "dataType", "required", "maxFieldLength",
   "generateNegativeTests", "config"}

\* the field list after the step differs from the one before it at most in
\* the keys named in updates of the fields with one id
UpdateFieldFrame(updated) ==
  /\ Len(fields') = Len(fields)
  /\ \E j \in DOMAIN fields :
       \A h \in DOMAIN fields :
         IF fields[h].id = fields[j].id
         THEN \A key \in FieldKeys \ updated : fields'[h][key] = fields[h][key]
         ELSE fields'[h] = fields[h]

\* C19: a call of updateField changes only the field with the given id and,
\* in it, only the keys named in updates; every other field, the order and
\* the length of the list and the other keys of the target are unchanged.
C19_UpdateFieldChangesOnlyNamedKeys ==
  [][/\ SetDataType => UpdateFieldFrame({"dataType"})
     /\ (ManualLookupEntry \/ SelectCsvColumn \/ CsvUploadCompletes)
          => (fields' = fields \/ UpdateFieldFrame({"config"}))]_vars

\* C20: generateTestData leaves fields and recordCount as they were before
\* the call; of the component's state only generatedData and filteredData
\* are replaced.
C20_GenerationLeavesConfiguration ==
  [][GenerateTestData =>
       /\ fields' = fields
       /\ recordCount' = recordCount
       /\ <<includeNegativeTests, selectedTestType, sidFile, parsedSidData,
            sidFields, pendingUploads>>' =
          <<includeNegativeTests, selectedTestType, sidFile, parsedSidData,
            sidFields, pendingUploads>>]_vars

\* a run over a list with a nameless field has replaced both data lists
C20_GeneratedOverNamelessField ==
  /\ uncaught = "none"
  /\ generatedData # <<>>
  /\ filteredData = generatedData
  /\ \E j \in DOMAIN fields : fields[j].name = <<>>
  /\ \E j \in DOMAIN fields : fields[j].name # <<>>

\* C21: when parseSidFile fails on its file (text JSON.parse rejects, or
\* parsed data without the tests / commands structure), fields and sidFields
\* keep their previous values: nothing extracted before the failure is
\* installed.
C21_FailedParseKeepsFields ==
  [][(/\ sidFile # Null
      /\ sidFile' = sidFile
      /\ sidFile.data = Null \/ ExtractionThrows(sidFile.data))
       => (fields' = fields /\ sidFields' = sidFields)]_vars

\* a parse failed after a data command had been read, over the fields of an
\* earlier file
C21_FailedAfterADataCommand ==
  /\ parsedSidData # Null
  /\ parsedSidData.tests # Undefined
  /\ ExtractionThrows(parsedSidData)
  /\ ParsedTests # <<>>
  /\ dataFields(ParsedTests[1]) # <<>>
  /\ sidFields # <<>>
  /\ fields = sidFields
  /\ \A j \in DOMAIN sidFields :
       sidFields[j].name # FieldNameOf(dataFields(ParsedTests[1])[1].label.s)

\* the fields the negative tests are switched on for by themselves
IsAutoEligible(field) ==
  \/ field.required
  \/ field.maxFieldLength # Undefined
  \/ field.config.rangeMin # Undefined
  \/ field.config.rangeMax # Undefined
  \/ field.type \in {"email", "phone", "date"}

\* C22: shouldAutoEnableNegativeTests(field) is true exactly when the field
\* is required, declares maxFieldLength, rangeMin or rangeMax, or has one of
\* the types email, phone, date; the _autoSelected flag of every negative
\* record is this predicate of its target field.
C22_AutoSelectedIsAutoEligible ==
  /\ \A j \in DOMAIN fields :
       shouldAutoEnableNegativeTests(fields[j]) = IsAutoEligible(fields[j])
  /\ NamesAreUnique =>
       \A n \in DOMAIN generatedData :
         IsNegativeRecord(generatedData[n]) =>
           \E j \in DOMAIN fields :
             /\ Str(fields[j].name) = generatedData[n][KeyTargetField]
             /\ generatedData[n][KeyAutoSelected] = Bool(IsAutoEligible(fields[j]))

\* a negative record targets a field that is eligible by its rangeMin of 0
\* alone
C22_ZeroBoundTarget ==
  /\ NamesAreUnique
  /\ \E n \in DOMAIN generatedData, j \in DOMAIN fields :
       /\ IsNegativeRecord(generatedData[n])
       /\ Str(fields[j].name) = generatedData[n][KeyTargetField]
       /\ fields[j].config.rangeMin = Num(0)
       /\ fields[j].config.rangeMax = Undefined
       /\ ~fields[j].required
       /\ fields[j].maxFieldLength = Undefined
       /\ fields[j].type = "string"
       /\ generatedData[n][KeyAutoSelected] = Bool(TRUE)

\* generateTestData would fail on the lookup source of a field
LookupSourceFails == \E j \in DOMAIN fields : getLookupValuesThrows(fields[j])

\* no lookup field resolves to values: the run is not lookup-driven
NotLookupDriven ==
  \A j \in DOMAIN fields :
    fields[j].dataType = "lookup" => Len(getLookupValues(fields[j])) = 0

\* C23: numeric bounds that are missing or out of range never make
\* generation fail: a run fails on no bound of a field, holds recordCount
\* positive records when it is not lookup-driven, draws a range value in
\* 0..100 when both range bounds are unset and a length in 1..10 when both
\* length bounds are unset.
C23_BoundsNeverFailGeneration ==
  /\ uncaught # "none" => LookupSourceFails
  /\ (uncaught = "none" /\ generatedData # <<>> /\ ~LookupSourceFails /\ NotLookupDriven)
       => Cardinality(PositiveIndices) = recordCount
  /\ \A j \in DOMAIN fields : \A seed \in Seeds : \A k \in DrawIndices :
       /\ (/\ fields[j].dataType = "range"
           /\ fields[j].config.rangeMin = Undefined
           /\ fields[j].config.rangeMax = Undefined)
          => SynthesizedValue(fields[j], seed, k).n \in DefaultRangeMin..DefaultRangeMax
       /\ (/\ fields[j].dataType = "minmax"
           /\ fields[j].type = "string"
           /\ fields[j].config.minLength = Undefined
           /\ fields[j].config.maxLength = Undefined)
          => Len(SynthesizedValue(fields[j], seed, k).s) \in DefaultMinLength..DefaultMaxLength

\* C24: no two fields of the working list share an id.
C24_FieldIdsUnique ==
  \A j, h \in DOMAIN fields : fields[j].id = fields[h].id => j = h

\* the lookup fields that resolve to values
ResolvingFields ==
  {j \in DOMAIN fields : fields[j].dataType = "lookup" /\ Len(getLookupValues(fields[j])) > 0}

\* C25 as stated: in a lookup-driven run the index of a positive record never
\* reaches the length of the list of any lookup field that resolves to values.
C25_IndexBelowEveryListLength ==
  (uncaught = "none" /\ ~LookupSourceFails) =>
    \A j \in ResolvingFields : \A n \in PositiveIndices :
      n - 1 < Len(getLookupValues(fields[j]))

\* C25: in a lookup-driven run the index of a positive record never reaches
\* the length of the longest resolved list, so the index wraps for no field
\* whose list is the longest; it wraps exactly for the fields whose list is
\* shorter than the number of positive records.
C25_IndexBelowLongestListLength ==
  (uncaught = "none" /\ generatedData # <<>> /\ ~LookupSourceFails /\ ResolvedLengths # {}) =>
    /\ \A n \in PositiveIndices : n - 1 < MaxOf(ResolvedLengths)
    /\ \A j \in ResolvingFields :
         (\E n \in PositiveIndices : n - 1 >= Len(getLookupValues(fields[j])))
           <=> Len(getLookupValues(fields[j])) < Min(MaxOf(ResolvedLengths), recordCount)

\* a positive record holds, for a lookup field of fewer values than records,
\* the value the wrapped index selects
C25_ShorterListWrapped ==
  /\ uncaught = "none" /\ ~LookupSourceFails /\ NamesAreUnique
  /\ \E j \in ResolvingFields : \E n \in PositiveIndices :
       /\ n - 1 >= Len(getLookupValues(fields[j]))
       /\ generatedData[n][fields[j].name] =
            Str(getLookupValues(fields[j])[((n - 1) % Len(getLookupValues(fields[j]))) + 1])

CellCount(line) == 1 + Cardinality({i \in DOMAIN line : line[i] = ","})

\* C27: in the CSV export every data row has as many comma-separated cells
\* as the header row, 2 + the number of fields, for every record of a run.
C27_RowsHaveHeaderCellCount ==
  /\ CellCount(exportCsvHeaders(fields)) = 2 + Len(fields)
  /\ \A n \in DOMAIN generatedData :
       CellCount(exportCsvRow(fields, generatedData[n])) = CellCount(exportCsvHeaders(fields))

\* result has the length of the sample, a letter of the same case or a digit
\* wherever the sample has one, and the sample's character elsewhere
KeepsPasswordShape(sample, result) ==
  /\ Len(result) = Len(sample)
  /\ \A i \in DOMAIN sample :
       IF IsUpper(sample[i]) THEN IsUpper(result[i])
       ELSE IF IsLower(sample[i]) THEN IsLower(result[i])
       ELSE IF IsDigit(sample[i]) THEN IsDigit(result[i])
       ELSE result[i] = sample[i]

\* result has the length of the sample and digits exactly where the sample
\* has digits
KeepsPhoneShape(sample, result) ==
  /\ Len(result) = Len(sample)
  /\ \A i \in DOMAIN sample : IsDigit(result[i]) <=> IsDigit(sample[i])

\* C28: expanding the pattern derived from a sample keeps the sample's shape:
\* for every password sample and every phone sample of a parsed file, braces
\* in the sample included, and for every run of draws.
C28_DerivedPatternKeepsShape ==
  ParsedAndExtracted =>
    \A i \in DOMAIN ParsedCommands : \A seed \in Seeds : \A k \in DrawIndices :
      LET command == ParsedCommands[i]
      IN IsDataCommand(command) =>
           /\ MatchingRule(command) = 1 =>
                KeepsPasswordShape(command.value.s,
                  generateFromPattern(generatePasswordPattern(command.value.s), "string", seed, k))
           /\ MatchingRule(command) = 4 =>
                KeepsPhoneShape(command.value.s,
                  generateFromPattern(generatePhonePattern(command.value.s), "phone", seed, k))

\* the list an upload leaves when it completes over the list as it is now
CompletedOver(fs, upload) ==
  LET found == FindField(fs, upload.fieldId)
      config == IF found = 0 THEN EmptyConfig ELSE fs[found].config
  IN updateField(fs, upload.fieldId,
                 [config |-> CsvUploadConfig(config, upload.file, parseCsvFile(upload.file))])

\* C29: an edit made to the field list while a CSV upload is pending is not
\* lost: when the upload completes, the list is the list as it was just
\* before, edits included, with the uploaded csvData in the upload's field.
C29_EditsSurvivePendingUpload ==
  [][\A upload \in pendingUploads :
       (pendingUploads' = pendingUploads \ {upload} /\ ~parseCsvFileRejects(upload.file))
         => fields' = CompletedOver(fields, upload)]_vars

\* C30: the filtered view is consistent with the selected filter: while a
\* filter is selected filteredData holds the records of generatedData that
\* match it, in their order, and while none is selected filteredData equals
\* generatedData.
C30_FilteredViewMatchesFilter ==
  filteredData =
    IF selectedTestType = Null THEN generatedData
    ELSE SelectSeq(generatedData, LAMBDA record : MatchesFilter(record, selectedTestType.s))
=============================================================================
